---------------------------- MODULE Spec2Model ----------------------------
(***************************************************************************)
(* termui: terminal spinners and progress bars.                            *)
(*                                                                         *)
(* The repository holds two implementations of each indicator:             *)
(*   Spinner     src/unnamed/part_001     (lock, running flag, writer)     *)
(*   Bar         src/unnamed/part_000     (RWMutex, started/stopped)       *)
(*   spinner.Spinner   src/spinner/spinner.go    (names prefixed Lite)     *)
(*   progress.Bar      src/progress/progress.go  (names prefixed Lite)     *)
(* A behaviour exercises one of them, chosen in Init (variable impl), from *)
(* NThreads caller threads plus the goroutines the indicator spawns.       *)
(* Every step is one statement (or one critical section that touches only  *)
(* lock-protected fields) of the source.                                   *)
(***************************************************************************)
EXTENDS Integers, Sequences, FiniteSets, TLC

\* ------------------------------------------------------------------ bounds
NThreads == 2          \* caller threads
MaxGoroutines == 2     \* goroutine slots of one indicator (a slot is reused
                       \* once its goroutine has exited and nothing refers to it)

MaxCalls == 4          \* calls the callers of a Bar make in one behaviour
MaxResizes == 1        \* terminal resizes in one behaviour
MaxFnCalls == 1        \* SetProgress calls the function given to Run makes

Threads == 1..NThreads
Slots == 1..MaxGoroutines
\* the resize watcher goroutines of a Bar, named after the callers
Watchers == {NThreads + g : g \in Slots}
\* the goroutine Run starts for the function it is given
Fn == NThreads + MaxGoroutines + 1
Procs == Threads \cup Watchers \cup {Fn}

\* FramesLines = []rune{'|', '/', '-', '\\'}: the default frame sequence
NFrames == 4

VARIABLES
    impl,        \* the implementation this behaviour exercises
    pc,          \* pc[t]: where caller thread t is inside the call it makes
    out,         \* the sink: the last item written to it
    panicked,    \* a goroutine panicked: the Go runtime ends the process
    calls,       \* number of calls made so far (bounded by MaxCalls)
    \* ---- Spinner (part_001) and spinner.Spinner (spinner.go)
    lock,        \* s.lock: 0, or the thread that holds it
    running,     \* s.running
    doneCh,      \* s.doneCh: 0 is nil, else the channel made for slot g
    finishedCh,  \* s.finishedCh: 0 is nil, else the channel made for slot g
    doneClosed,  \* doneClosed[g]: the doneCh made by the Start of slot g is closed
    finClosed,   \* finClosed[g]: the finishedCh made for slot g is closed
    gpc,         \* gpc[g]: where the animation goroutine in slot g is
    frameIndex,  \* frameIndex[g]: the goroutine's frame counter, modulo NFrames
    tg,          \* tg[t]: thread t's local channel value (slot), 0 is nil
    prefix,      \* len(s.prefix)
    suffix,      \* len(s.suffix)
    newText,     \* newText[t]: length of the parameter of t's SetPrefix/SetSuffix
    \* ---- Run
    outer,       \* outer[t]: where thread t is inside Run, between the calls
                 \* Run makes ("none" outside Run)
    fnDone,      \* the function given to Run has returned (wg.Done())
    fnCalls,     \* number of SetProgress calls that function has made
    timer,       \* the timer of time.After(timeout): "none", "armed", "fired"
    result,      \* what RunWithTimeout's select chose: "none", "fn", "timeout"
    first,       \* which came first, fn's completion ("fn") or the timer ("timer")
    \* ---- Bar.Increment (part_000)
    delta,         \* delta[p]: the parameter of p's latest Increment call, 0 if
                   \* p's latest call of SetProgress was a direct one
    current,       \* current[p]: the local of p's Increment call
    \* ---- the options given to New (part_001)
    nframes,       \* len(s.frames)
    frameDuration, \* s.frameDuration, in units of the default interval
    \* ---- MultiBar (part_000) and MultiSpinner (part_001)
    reg,         \* mb.bars / ms.spinners: reg[n] is the instance under name n, 0 if none
    inst,        \* the LabeledBar / LabeledSpinner values created so far
    adds,        \* number of Add calls so far (bounded by MaxAdds)
    mcalls,      \* number of registry calls so far (bounded by MaxMultiCalls)
    mpc,         \* the registry caller: "idle", "lookup", "loop", "done"
    mop,         \* the registry method of the latest call
    mname,       \* its name parameter
    marg,        \* its progress or newLabel parameter
    todo,        \* instances a StartAll / StopAll loop has still to visit
    \* ---- Bar (part_000) and progress.Bar (progress.go)
    cfgWidth,     \* b.config.Width: 0 is auto-detect
    totalWidth,   \* b.totalWidth
    lastProgress, \* b.lastProgress (b.lastPosition), in units of 1/One
    started,      \* b.started
    stopped,      \* b.stopped
    startTime,    \* b.startTime: 0 is the zero time.Time
    clock,        \* the wall clock: the value of the latest time.Now()
    sigNotify,    \* signal.Notify(b.termSizeCh, SIGWINCH) is in effect
    termSizeCh,   \* number of signals buffered in b.termSizeCh
    termCols,     \* the terminal: its column count, 0 when term.GetSize fails
    resizes,      \* number of terminal resizes so far (bounded by MaxResizes)
    arg,          \* arg[p]: the progress parameter of p's SetProgress call
    filledCount   \* filledCount[p]: the local of p's SetProgress call

spinnerVars == <<lock, running, doneCh, finishedCh, doneClosed, finClosed, gpc,
                 frameIndex, tg>>
spinnerVarsButLock == <<running, doneCh, finishedCh, doneClosed, finClosed, gpc,
                        frameIndex, tg>>
textVars == <<prefix, suffix, newText>>
runVars == <<outer, fnDone, fnCalls>>
rwtVars == <<timer, result, first>>
cfgVars == <<nframes, frameDuration>>
incVars == <<delta, current>>
multiVars == <<reg, inst, adds, mcalls, mpc, mop, mname, marg, todo>>
barVars == <<cfgWidth, totalWidth, lastProgress, started, stopped, startTime,
             clock, sigNotify, termSizeCh, termCols, resizes, arg, filledCount>>
vars == <<impl, pc, out, panicked, calls, spinnerVars, textVars, runVars, rwtVars,
          cfgVars, incVars, multiVars, barVars>>

Impls == {"Spinner", "LiteSpinner", "Bar", "LiteBar"}

\* an item written to the sink
Item(kind, val) == [kind |-> kind, val |-> val, filled |-> 0, empty |-> 0,
                    pre |-> 0, suf |-> 0]
NoOutput == Item("none", 0)
\* "\r" and n spaces
Blank(n) == [kind |-> "clear", val |-> 0, filled |-> 0, empty |-> n,
             pre |-> 0, suf |-> 0]
\* "\r", f filled cells, e empty cells, and the percentage of progress v
BarFrame(v, f, e) == [kind |-> "frame", val |-> v, filled |-> f, empty |-> e,
                      pre |-> 0, suf |-> 0]
\* a spinner line: "\r%s%c%s" with the prefix, frame number val, and the suffix
SpinFrame(val, pre, suf) == [kind |-> "frame", val |-> val, filled |-> 0, empty |-> 0,
                             pre |-> pre, suf |-> suf]
\* lengths of the texts SetPrefix and SetSuffix are called with
TextLens == {0, 2}

\* callers are interchangeable: a new call is made by the first thread that is
\* not inside a call
Outside(t) == pc[t] = "idle" /\ outer[t] = "none"
Idle(t) == Outside(t) /\ \A u \in Threads : u < t => ~Outside(u)

\* thread t begins a call of a Bar method: as a call of its own, or as the call
\* Run makes when it is at the position want
BarEnter(t, want) ==
    \/ /\ Idle(t)
       /\ calls < MaxCalls
       /\ calls' = calls + 1
       /\ UNCHANGED runVars
    \/ /\ pc[t] = "idle" /\ outer[t] = want
       /\ outer' = [outer EXCEPT ![t] = IF want = "call_start" THEN "in_start"
                                                                ELSE "in_stop"]
       /\ UNCHANGED <<calls, fnDone, fnCalls>>

Alive(g) == gpc[g] \notin {"none", "exited"}
AliveCount == Cardinality({g \in Slots : Alive(g)})

\* a slot no goroutine runs in and no channel variable refers to
FreeSlot(g) ==
    /\ ~Alive(g)
    /\ doneCh # g /\ finishedCh # g
    /\ \A t \in Threads : tg[t] # g
HasFreeSlot == \E g \in Slots : FreeSlot(g)
NewSlot == CHOOSE g \in Slots : FreeSlot(g) /\ \A h \in Slots : FreeSlot(h) => g <= h

\* ---- Bar: configuration and pure helpers
\* 1.0, the upper end of the progress range; progress is counted in tenths
One == 10
\* the amounts callers pass to Increment
Deltas == {-5, 5}
\* the progress values callers pass: below 0, inside the range, above 1
Progresses == {-5, 5, 15}
\* the widths the terminal takes; 0 stands for a failing term.GetSize
TermCols == {0, 9, 30}
\* the Width option of a fixed-width Bar
FixedWidth == 10
\* StyleDefault
ShowPercent == TRUE
ShowETA == FALSE

Max(a, b) == IF a >= b THEN a ELSE b
Min(a, b) == IF a <= b THEN a ELSE b

\* math.Max(0.0, math.Min(1.0, progress))
Clamp(p) == Max(0, Min(One, p))

\* calculateWidth: the new b.totalWidth
CalculateWidth(width, cols) ==
    IF width > 0 THEN width
    ELSE IF cols = 0 THEN 60
    ELSE LET reserved == (IF ShowPercent THEN 5 ELSE 0) + (IF ShowETA THEN 12 ELSE 0)
             w == cols - reserved - 2
         IN IF w < 10 THEN 10 ELSE w

\* clearLine: the number of spaces written after "\r"
ClearWidth(tw) ==
    tw + (IF ShowPercent THEN 5 ELSE 0) + (IF ShowETA THEN 12 ELSE 0) + 5

\* int(x) of a float64 with value a/b: truncation toward zero
Trunc(a, b) == IF a >= 0 THEN a \div b ELSE -((-a) \div b)

\* calculateWidth and the resize goroutine: width - 1, where a failing
\* term.GetSize leaves width 0
LiteCalculateWidth(cols) == cols - 1

\* the registries: the names callers use, the labels, and the Add calls explored
Names == {"a", "b"}
Labels == {1, 2}
MaxAdds == 3
MaxMultiCalls == 4
Insts == 1..MaxAdds

\* a LabeledBar / LabeledSpinner with the fields of its Bar / Spinner that the
\* registry methods depend on; bg is the instance's background goroutine
NoInst == [line |-> 0, label |-> 0, width |-> 0, prefix |-> 0, running |-> FALSE,
           started |-> FALSE, stopped |-> FALSE, lastProgress |-> 0, bg |-> "none"]

\* the values the options take: WithFrames, WithFrameDuration, WithWidth
FrameCounts == {0, NFrames}
FrameDurations == {-1, 0, 1}
Widths == {-5, 0, FixedWidth}

InitState ==
    /\ pc = [p \in Procs |-> IF p \in Threads THEN "idle" ELSE "none"]
    /\ out = NoOutput
    /\ panicked = FALSE
    /\ calls = 0
    /\ lock = 0
    /\ running = FALSE
    /\ doneCh = 0
    /\ finishedCh = 0
    /\ doneClosed = [g \in Slots |-> FALSE]
    /\ finClosed = [g \in Slots |-> FALSE]
    /\ gpc = [g \in Slots |-> "none"]
    /\ frameIndex = [g \in Slots |-> 0]
    /\ tg = [t \in Threads |-> 0]
    /\ prefix = 0
    /\ suffix = 0
    /\ newText = [t \in Threads |-> 0]
    /\ outer = [t \in Threads |-> "none"]
    /\ fnDone = FALSE
    /\ fnCalls = 0
    /\ timer = "none"
    /\ result = "none"
    /\ first = "none"
    /\ reg = [n \in Names |-> 0]
    /\ inst = [i \in Insts |-> NoInst]
    /\ adds = 0
    /\ mcalls = 0
    /\ mpc = "idle"
    /\ mop = "none"
    /\ mname = "a"
    /\ marg = 0
    /\ todo = {}
    /\ termCols \in (IF (impl = "Bar" /\ cfgWidth <= 0) \/ impl = "LiteBar"
                     THEN TermCols ELSE {0})
    /\ totalWidth = (CASE impl = "Bar" -> CalculateWidth(cfgWidth, termCols)
                       [] impl = "LiteBar" -> LiteCalculateWidth(termCols)
                       [] OTHER -> 0)
    /\ lastProgress = 0
    /\ started = FALSE
    /\ stopped = FALSE
    /\ startTime = 0
    /\ clock = 0
    /\ sigNotify = FALSE
    /\ termSizeCh = 0
    /\ resizes = 0
    /\ arg = [p \in Procs |-> 0]
    /\ filledCount = [p \in Procs |-> 0]
    /\ delta = [p \in Procs |-> 0]
    /\ current = [p \in Procs |-> 0]

\* the configurations the histories above are explored with: the defaults
\* of New, and a Bar of automatic or fixed positive width
DefaultConfig ==
    /\ nframes = NFrames
    /\ frameDuration = 1
    /\ cfgWidth \in (IF impl = "Bar" THEN {0, FixedWidth} ELSE {0})

Init == impl \in Impls /\ DefaultConfig /\ InitState

\* ------------------------------------------------- Spinner (part_001)
\* s.lock.Lock() of Start
\* entering Start or Stop: a direct call, made while no RunWithTimeout is in
\* flight, or the call that RunWithTimeout makes
SpinnerEnter(t, want) ==
    \/ /\ Idle(t)
       /\ pc[Fn] = "none" /\ \A u \in Threads : outer[u] = "none"
       /\ UNCHANGED runVars
    \/ /\ pc[t] = "idle" /\ outer[t] = want
       /\ outer' = [outer EXCEPT ![t] = IF want = "call_start" THEN "in_start" ELSE "in_stop"]
       /\ UNCHANGED <<fnDone, fnCalls>>

SpinnerStartLock(t) ==
    /\ impl = "Spinner" /\ ~panicked
    /\ SpinnerEnter(t, "call_start") /\ lock = 0
    /\ lock' = t
    /\ pc' = [pc EXCEPT ![t] = "start_locked"]
    /\ UNCHANGED <<impl, incVars, cfgVars, multiVars, rwtVars, textVars, out, panicked, calls, running, doneCh, finishedCh, doneClosed,
                   finClosed, gpc, frameIndex, tg, barVars>>

\* a Start that does not test s.running (the guard removed)
SpinnerStartNoGuard == FALSE

\* the guard of Start: if s.running { return }
SpinnerStartGuard == running

\* Start, from the guard to the go statement
SpinnerStartBody(t) ==
    /\ impl = "Spinner" /\ ~panicked
    /\ pc[t] = "start_locked"
    /\ IF SpinnerStartGuard
       THEN /\ lock' = 0
            /\ pc' = [pc EXCEPT ![t] = "idle"]
            /\ UNCHANGED <<doneClosed, finClosed, gpc, frameIndex, tg>>
       ELSE /\ HasFreeSlot
            /\ LET g == NewSlot IN
               /\ doneClosed' = [doneClosed EXCEPT ![g] = FALSE]
               /\ finClosed' = [finClosed EXCEPT ![g] = FALSE]
               /\ gpc' = [gpc EXCEPT ![g] = "loop"]
               /\ frameIndex' = [frameIndex EXCEPT ![g] = 0]
               /\ tg' = [tg EXCEPT ![t] = g]
            /\ pc' = [pc EXCEPT ![t] = "start_publish"]
            /\ UNCHANGED lock
    /\ UNCHANGED <<impl, incVars, cfgVars, multiVars, rwtVars, textVars, runVars, out, panicked, calls, running, doneCh, finishedCh, barVars>>

\* Start, the assignments after the go statement and the deferred Unlock
SpinnerStartPublish(t) ==
    /\ impl = "Spinner" /\ ~panicked
    /\ pc[t] = "start_publish"
    /\ doneCh' = tg[t]
    /\ finishedCh' = tg[t]
    /\ running' = TRUE
    /\ tg' = [tg EXCEPT ![t] = 0]
    /\ lock' = 0
    /\ pc' = [pc EXCEPT ![t] = "idle"]
    /\ UNCHANGED <<impl, incVars, cfgVars, multiVars, rwtVars, textVars, runVars, out, panicked, calls, doneClosed, finClosed, gpc, frameIndex, barVars>>

\* the animation goroutine: case <-ticker.C
SpinnerTick(g) ==
    /\ impl = "Spinner" /\ ~panicked
    /\ gpc[g] = "loop"
    /\ frameDuration > 0
    /\ IF nframes = 0
       THEN /\ panicked' = TRUE
            /\ UNCHANGED <<out, frameIndex>>
       ELSE /\ out' = SpinFrame(frameIndex[g] % nframes, prefix, suffix)
            /\ frameIndex' = [frameIndex EXCEPT ![g] = (frameIndex[g] + 1) % NFrames]
            /\ UNCHANGED panicked
    /\ UNCHANGED <<impl, incVars, cfgVars, multiVars, rwtVars, textVars, runVars, pc, calls, lock, running, doneCh, finishedCh,
                   doneClosed, finClosed, gpc, tg, barVars>>

\* the animation goroutine: time.NewTicker(s.frameDuration) panics when the
\* interval is not positive
SpinnerNewTicker(g) ==
    /\ impl = "Spinner" /\ ~panicked
    /\ gpc[g] = "loop"
    /\ frameDuration <= 0
    /\ panicked' = TRUE
    /\ UNCHANGED <<impl, incVars, cfgVars, multiVars, rwtVars, textVars, runVars, pc, out, calls,
                   spinnerVars, barVars>>

\* the animation goroutine: case <-doneCh: return
SpinnerDone(g) ==
    /\ impl = "Spinner" /\ ~panicked
    /\ gpc[g] = "loop"
    /\ frameDuration > 0
    /\ doneClosed[g]
    /\ gpc' = [gpc EXCEPT ![g] = "clear"]
    /\ UNCHANGED <<impl, incVars, cfgVars, multiVars, rwtVars, textVars, runVars, pc, out, panicked, calls, lock, running, doneCh, finishedCh,
                   doneClosed, finClosed, frameIndex, tg, barVars>>

\* a clearLine that takes s.lock before it reads s.prefix and s.suffix
SpinnerClearLineLocked == lock = 0

\* clearLine takes no lock: the goroutine's exit path never waits for s.lock
SpinnerClearLineReady == TRUE

\* the animation goroutine: defer s.clearLine(), which reads s.prefix and
\* s.suffix without s.lock
SpinnerClearLine(g) ==
    /\ impl = "Spinner" /\ ~panicked
    /\ gpc[g] = "clear"
    /\ SpinnerClearLineReady
    /\ out' = Blank(prefix + suffix + 1)
    /\ gpc' = [gpc EXCEPT ![g] = "closefin"]
    /\ UNCHANGED <<impl, incVars, cfgVars, multiVars, rwtVars, textVars, runVars, pc, panicked, calls, lock, running, doneCh, finishedCh,
                   doneClosed, finClosed, frameIndex, tg, barVars>>

\* the animation goroutine: defer close(finishedCh)
SpinnerCloseFinished(g) ==
    /\ impl = "Spinner" /\ ~panicked
    /\ gpc[g] = "closefin"
    /\ finClosed' = [finClosed EXCEPT ![g] = TRUE]
    /\ gpc' = [gpc EXCEPT ![g] = "exited"]
    /\ UNCHANGED <<impl, incVars, cfgVars, multiVars, rwtVars, textVars, runVars, pc, out, panicked, calls, lock, running, doneCh, finishedCh,
                   doneClosed, frameIndex, tg, barVars>>

\* s.lock.Lock() of Stop
SpinnerStopLock(t) ==
    /\ impl = "Spinner" /\ ~panicked
    /\ SpinnerEnter(t, "call_stop") /\ lock = 0
    /\ lock' = t
    /\ pc' = [pc EXCEPT ![t] = "stop_locked"]
    /\ UNCHANGED <<impl, incVars, cfgVars, multiVars, rwtVars, textVars, out, panicked, calls, running, doneCh, finishedCh, doneClosed,
                   finClosed, gpc, frameIndex, tg, barVars>>

\* Stop, from the guard to close(s.doneCh)
SpinnerStopBody(t) ==
    /\ impl = "Spinner" /\ ~panicked
    /\ pc[t] = "stop_locked"
    /\ IF ~running \/ doneCh = 0
       THEN /\ lock' = 0
            /\ pc' = [pc EXCEPT ![t] = "idle"]
            /\ UNCHANGED doneClosed
       ELSE /\ doneClosed' = [doneClosed EXCEPT ![doneCh] = TRUE]
            /\ pc' = [pc EXCEPT ![t] = "stop_wait"]
            /\ UNCHANGED lock
    /\ UNCHANGED <<impl, incVars, cfgVars, multiVars, rwtVars, textVars, runVars, out, panicked, calls, running, doneCh, finishedCh, finClosed,
                   gpc, frameIndex, tg, barVars>>

\* a Stop that does not receive from s.finishedCh (the join removed)
SpinnerStopNotJoined == TRUE

\* <-s.finishedCh
SpinnerStopJoined == finClosed[finishedCh]

\* Stop, from <-s.finishedCh to the deferred Unlock
SpinnerStopFinish(t) ==
    /\ impl = "Spinner" /\ ~panicked
    /\ pc[t] = "stop_wait"
    /\ SpinnerStopJoined
    /\ doneCh' = 0
    /\ finishedCh' = 0
    /\ running' = FALSE
    /\ lock' = 0
    /\ pc' = [pc EXCEPT ![t] = "idle"]
    /\ UNCHANGED <<impl, incVars, cfgVars, multiVars, rwtVars, textVars, runVars, out, panicked, calls, doneClosed, finClosed, gpc, frameIndex, tg, barVars>>

\* SetPrefix: s.lock.Lock()
SpinnerSetPrefixLock(t) ==
    /\ impl = "Spinner" /\ ~panicked
    /\ Idle(t) /\ lock = 0
    /\ lock' = t
    /\ \E v \in TextLens : newText' = [newText EXCEPT ![t] = v]
    /\ pc' = [pc EXCEPT ![t] = "setprefix_locked"]
    /\ UNCHANGED <<impl, incVars, cfgVars, multiVars, rwtVars, runVars, out, panicked, calls, spinnerVarsButLock, prefix, suffix,
                   barVars>>

\* SetPrefix: s.prefix = prefix and the deferred Unlock
SpinnerSetPrefixBody(t) ==
    /\ impl = "Spinner" /\ ~panicked
    /\ pc[t] = "setprefix_locked"
    /\ prefix' = newText[t]
    /\ newText' = [newText EXCEPT ![t] = 0]
    /\ lock' = 0
    /\ pc' = [pc EXCEPT ![t] = "idle"]
    /\ UNCHANGED <<impl, incVars, cfgVars, multiVars, rwtVars, runVars, out, panicked, calls, spinnerVarsButLock, suffix, barVars>>

\* SetSuffix: s.lock.Lock()
SpinnerSetSuffixLock(t) ==
    /\ impl = "Spinner" /\ ~panicked
    /\ Idle(t) /\ lock = 0
    /\ lock' = t
    /\ \E v \in TextLens : newText' = [newText EXCEPT ![t] = v]
    /\ pc' = [pc EXCEPT ![t] = "setsuffix_locked"]
    /\ UNCHANGED <<impl, incVars, cfgVars, multiVars, rwtVars, runVars, out, panicked, calls, spinnerVarsButLock, prefix, suffix,
                   barVars>>

\* SetSuffix: s.suffix = suffix and the deferred Unlock
SpinnerSetSuffixBody(t) ==
    /\ impl = "Spinner" /\ ~panicked
    /\ pc[t] = "setsuffix_locked"
    /\ suffix' = newText[t]
    /\ newText' = [newText EXCEPT ![t] = 0]
    /\ lock' = 0
    /\ pc' = [pc EXCEPT ![t] = "idle"]
    /\ UNCHANGED <<impl, incVars, cfgVars, multiVars, rwtVars, runVars, out, panicked, calls, spinnerVarsButLock, prefix, barVars>>

\* RunWithTimeout is called: it goes on to s.Start()
SpinnerRunWithTimeout(t) ==
    /\ impl = "Spinner" /\ ~panicked
    /\ Idle(t)
    /\ result = "none" /\ timer = "none"
    /\ pc[Fn] = "none" /\ \A u \in Threads : outer[u] = "none"
    /\ outer' = [outer EXCEPT ![t] = "call_start"]
    /\ fnDone' = FALSE
    /\ UNCHANGED <<impl, incVars, cfgVars, multiVars, rwtVars, textVars, fnCalls, pc, out, panicked, calls,
                   spinnerVars, barVars>>

\* RunWithTimeout, after Start has returned: done := make(chan error, 1) and
\* the go statement
SpinnerRunWithTimeoutGo(t) ==
    /\ impl = "Spinner" /\ ~panicked
    /\ pc[t] = "idle" /\ outer[t] = "in_start"
    /\ pc' = [pc EXCEPT ![Fn] = "fn_running"]
    /\ outer' = [outer EXCEPT ![t] = "select_eval"]
    /\ UNCHANGED <<impl, incVars, cfgVars, multiVars, rwtVars, textVars, fnDone, fnCalls, out, panicked, calls,
                   spinnerVars, barVars>>

\* the select statement evaluates its channel operands: time.After(timeout)
\* creates the timer
SpinnerRunWithTimeoutAfter(t) ==
    /\ impl = "Spinner" /\ ~panicked
    /\ outer[t] = "select_eval"
    /\ timer' = "armed"
    /\ outer' = [outer EXCEPT ![t] = "select_poll"]
    /\ UNCHANGED <<impl, incVars, cfgVars, multiVars, textVars, fnDone, fnCalls, result, first, pc, out, panicked,
                   calls, spinnerVars, barVars>>

\* the select statement polls its cases: one that is ready is chosen, any one
\* of them when both are; with none ready the caller parks on both channels
SpinnerRunWithTimeoutSelect(t) ==
    /\ impl = "Spinner" /\ ~panicked
    /\ outer[t] = "select_poll"
    /\ \/ /\ fnDone
          /\ result' = "fn"
          /\ outer' = [outer EXCEPT ![t] = "call_stop"]
       \/ /\ timer = "fired"
          /\ result' = "timeout"
          /\ outer' = [outer EXCEPT ![t] = "call_stop"]
       \/ /\ ~fnDone /\ timer # "fired"
          /\ outer' = [outer EXCEPT ![t] = "select_wait"]
          /\ UNCHANGED result
    /\ UNCHANGED <<impl, incVars, cfgVars, multiVars, textVars, fnDone, fnCalls, timer, first, pc, out, panicked,
                   calls, spinnerVars, barVars>>

\* fn returns and its goroutine sends the result: done <- fn().  The buffer
\* of done has room, so the send completes; a caller parked in the select
\* receives it
SpinnerFnReturn ==
    /\ impl = "Spinner" /\ ~panicked
    /\ pc[Fn] = "fn_running"
    /\ pc' = [pc EXCEPT ![Fn] = "none"]
    /\ fnDone' = TRUE
    /\ first' = IF first = "none" THEN "fn" ELSE first
    /\ IF \E t \in Threads : outer[t] = "select_wait"
       THEN /\ result' = "fn"
            /\ outer' = [t \in Threads |->
                            IF outer[t] = "select_wait" THEN "call_stop" ELSE outer[t]]
       ELSE UNCHANGED <<result, outer>>
    /\ UNCHANGED <<impl, incVars, cfgVars, multiVars, textVars, fnCalls, timer, out, panicked, calls, spinnerVars,
                   barVars>>

\* the timer fires: a caller parked in the select receives from its channel
SpinnerTimerFire ==
    /\ impl = "Spinner" /\ ~panicked
    /\ timer = "armed"
    /\ timer' = "fired"
    /\ first' = IF first = "none" THEN "timer" ELSE first
    /\ IF \E t \in Threads : outer[t] = "select_wait"
       THEN /\ result' = "timeout"
            /\ outer' = [t \in Threads |->
                            IF outer[t] = "select_wait" THEN "call_stop" ELSE outer[t]]
       ELSE UNCHANGED <<result, outer>>
    /\ UNCHANGED <<impl, incVars, cfgVars, multiVars, textVars, fnDone, fnCalls, pc, out, panicked, calls,
                   spinnerVars, barVars>>

\* RunWithTimeout returns, after the deferred Stop has returned
SpinnerRunWithTimeoutReturn(t) ==
    /\ impl = "Spinner" /\ ~panicked
    /\ pc[t] = "idle" /\ outer[t] = "in_stop"
    /\ outer' = [outer EXCEPT ![t] = "none"]
    /\ UNCHANGED <<impl, incVars, cfgVars, multiVars, rwtVars, textVars, fnDone, fnCalls, pc, out, panicked, calls,
                   spinnerVars, barVars>>

\* ---- Spinner (part_001): IsRunning, and callers parked in s.lock.Lock()
\* IsRunning: s.lock.Lock() on a free mutex
SpinnerIsRunningLock(t) ==
    /\ impl = "Spinner" /\ ~panicked
    /\ Idle(t) /\ lock = 0
    /\ lock' = t
    /\ pc' = [pc EXCEPT ![t] = "isrunning_locked"]
    /\ UNCHANGED <<impl, incVars, cfgVars, multiVars, rwtVars, textVars, runVars, out, panicked, calls,
                   spinnerVarsButLock, barVars>>

\* IsRunning: return s.running and the deferred Unlock
SpinnerIsRunningBody(t) ==
    /\ impl = "Spinner" /\ ~panicked
    /\ pc[t] = "isrunning_locked"
    /\ lock' = 0
    /\ pc' = [pc EXCEPT ![t] = "idle"]
    /\ UNCHANGED <<impl, incVars, cfgVars, multiVars, rwtVars, textVars, runVars, out, panicked, calls,
                   spinnerVarsButLock, barVars>>

\* the positions of a caller parked in the s.lock.Lock() of a method
SpinnerBlocked == {"start_blocked", "stop_blocked", "isrunning_blocked",
                   "setprefix_blocked", "setsuffix_blocked"}

\* the position of a parked caller once it holds the mutex
SpinnerLocked(pos) ==
    CASE pos = "start_blocked" -> "start_locked"
      [] pos = "stop_blocked" -> "stop_locked"
      [] pos = "isrunning_blocked" -> "isrunning_locked"
      [] pos = "setprefix_blocked" -> "setprefix_locked"
      [] pos = "setsuffix_blocked" -> "setsuffix_locked"

\* a method is called while the mutex is held: s.lock.Lock() parks the caller
SpinnerBlock(t) ==
    /\ impl = "Spinner" /\ ~panicked
    /\ Idle(t) /\ lock # 0
    /\ \E pos \in SpinnerBlocked :
          /\ pc' = [pc EXCEPT ![t] = pos]
          /\ \E v \in (IF pos \in {"setprefix_blocked", "setsuffix_blocked"}
                        THEN TextLens ELSE {0}) :
                newText' = [newText EXCEPT ![t] = v]
    /\ UNCHANGED <<impl, incVars, cfgVars, multiVars, rwtVars, runVars, out, panicked, calls,
                   spinnerVars, prefix, suffix, barVars>>

\* the mutex is released and handed to a parked caller
SpinnerAcquire(t) ==
    /\ impl = "Spinner" /\ ~panicked
    /\ pc[t] \in SpinnerBlocked /\ lock = 0
    /\ lock' = t
    /\ pc' = [pc EXCEPT ![t] = SpinnerLocked(pc[t])]
    /\ UNCHANGED <<impl, incVars, cfgVars, multiVars, rwtVars, textVars, runVars, out, panicked, calls,
                   spinnerVarsButLock, barVars>>

SpinnerNext ==
    \/ \E t \in Threads : SpinnerRunWithTimeout(t)
    \/ \E t \in Threads : SpinnerRunWithTimeoutGo(t)
    \/ \E t \in Threads : SpinnerRunWithTimeoutAfter(t)
    \/ \E t \in Threads : SpinnerRunWithTimeoutSelect(t)
    \/ SpinnerFnReturn
    \/ SpinnerTimerFire
    \/ \E t \in Threads : SpinnerRunWithTimeoutReturn(t)
    \/ \E t \in Threads : SpinnerSetPrefixLock(t)
    \/ \E t \in Threads : SpinnerSetPrefixBody(t)
    \/ \E t \in Threads : SpinnerSetSuffixLock(t)
    \/ \E t \in Threads : SpinnerSetSuffixBody(t)
    \/ \E t \in Threads : SpinnerStartLock(t)
    \/ \E t \in Threads : SpinnerStartBody(t)
    \/ \E t \in Threads : SpinnerStartPublish(t)
    \/ \E t \in Threads : SpinnerStopLock(t)
    \/ \E t \in Threads : SpinnerStopBody(t)
    \/ \E t \in Threads : SpinnerStopFinish(t)
    \/ \E g \in Slots : SpinnerTick(g)
    \/ \E g \in Slots : SpinnerDone(g)
    \/ \E g \in Slots : SpinnerClearLine(g)
    \/ \E g \in Slots : SpinnerCloseFinished(g)

\* ------------------------------------- spinner.Spinner (src/spinner/spinner.go)
\* s.lock.Lock() of Start
LiteSpinnerStartLock(t) ==
    /\ impl = "LiteSpinner" /\ ~panicked
    /\ Idle(t) /\ lock = 0
    /\ lock' = t
    /\ pc' = [pc EXCEPT ![t] = "start_locked"]
    /\ UNCHANGED <<impl, incVars, cfgVars, multiVars, rwtVars, textVars, runVars, out, panicked, calls, running, doneCh, finishedCh, doneClosed,
                   finClosed, gpc, frameIndex, tg, barVars>>

\* the guard of Start
LiteSpinnerStartGuard == doneCh # 0

\* Start, from the guard to the go statement
LiteSpinnerStartBody(t) ==
    /\ impl = "LiteSpinner" /\ ~panicked
    /\ pc[t] = "start_locked"
    /\ IF LiteSpinnerStartGuard
       THEN /\ lock' = 0
            /\ pc' = [pc EXCEPT ![t] = "idle"]
            /\ UNCHANGED <<doneClosed, finClosed, gpc, frameIndex, tg>>
       ELSE /\ HasFreeSlot
            /\ LET g == NewSlot IN
               /\ doneClosed' = [doneClosed EXCEPT ![g] = FALSE]
               /\ finClosed' = [finClosed EXCEPT ![g] = FALSE]
               /\ gpc' = [gpc EXCEPT ![g] = "loop"]
               /\ frameIndex' = [frameIndex EXCEPT ![g] = 0]
               /\ tg' = [tg EXCEPT ![t] = g]
            /\ pc' = [pc EXCEPT ![t] = "start_set_done"]
            /\ UNCHANGED lock
    /\ UNCHANGED <<impl, incVars, cfgVars, multiVars, rwtVars, textVars, runVars, out, panicked, calls, running, doneCh, finishedCh, barVars>>

\* s.doneCh = doneCh
LiteSpinnerStartSetDone(t) ==
    /\ impl = "LiteSpinner" /\ ~panicked
    /\ pc[t] = "start_set_done"
    /\ doneCh' = tg[t]
    /\ pc' = [pc EXCEPT ![t] = "start_set_finished"]
    /\ UNCHANGED <<impl, incVars, cfgVars, multiVars, rwtVars, textVars, runVars, out, panicked, calls, lock, running, finishedCh, doneClosed,
                   finClosed, gpc, frameIndex, tg, barVars>>

\* s.finishedCh = closedCh and the deferred Unlock
LiteSpinnerStartSetFinished(t) ==
    /\ impl = "LiteSpinner" /\ ~panicked
    /\ pc[t] = "start_set_finished"
    /\ finishedCh' = tg[t]
    /\ tg' = [tg EXCEPT ![t] = 0]
    /\ lock' = 0
    /\ pc' = [pc EXCEPT ![t] = "idle"]
    /\ UNCHANGED <<impl, incVars, cfgVars, multiVars, rwtVars, textVars, runVars, out, panicked, calls, running, doneCh, doneClosed, finClosed,
                   gpc, frameIndex, barVars>>

\* the animation goroutine: i++ and case <-ticker.C
LiteSpinnerTick(g) ==
    /\ impl = "LiteSpinner" /\ ~panicked
    /\ gpc[g] = "loop"
    /\ out' = Item("frame", (frameIndex[g] + 1) % NFrames)
    /\ frameIndex' = [frameIndex EXCEPT ![g] = (frameIndex[g] + 1) % NFrames]
    /\ UNCHANGED <<impl, incVars, cfgVars, multiVars, rwtVars, textVars, runVars, pc, panicked, calls, lock, running, doneCh, finishedCh,
                   doneClosed, finClosed, gpc, tg, barVars>>

\* the animation goroutine: i++ and case <-doneCh
LiteSpinnerDone(g) ==
    /\ impl = "LiteSpinner" /\ ~panicked
    /\ gpc[g] = "loop"
    /\ doneClosed[g]
    /\ frameIndex' = [frameIndex EXCEPT ![g] = (frameIndex[g] + 1) % NFrames]
    /\ gpc' = [gpc EXCEPT ![g] = "cr"]
    /\ UNCHANGED <<impl, incVars, cfgVars, multiVars, rwtVars, textVars, runVars, pc, out, panicked, calls, lock, running, doneCh, finishedCh,
                   doneClosed, finClosed, tg, barVars>>

\* the animation goroutine: fmt.Print("\r")
LiteSpinnerPrintCR(g) ==
    /\ impl = "LiteSpinner" /\ ~panicked
    /\ gpc[g] = "cr"
    /\ out' = Item("cr", 0)
    /\ gpc' = [gpc EXCEPT ![g] = "closefin"]
    /\ UNCHANGED <<impl, incVars, cfgVars, multiVars, rwtVars, textVars, runVars, pc, panicked, calls, lock, running, doneCh, finishedCh,
                   doneClosed, finClosed, frameIndex, tg, barVars>>

\* the animation goroutine: close(closedCh); return
LiteSpinnerCloseFinished(g) ==
    /\ impl = "LiteSpinner" /\ ~panicked
    /\ gpc[g] = "closefin"
    /\ finClosed' = [finClosed EXCEPT ![g] = TRUE]
    /\ gpc' = [gpc EXCEPT ![g] = "exited"]
    /\ UNCHANGED <<impl, incVars, cfgVars, multiVars, rwtVars, textVars, runVars, pc, out, panicked, calls, lock, running, doneCh, finishedCh,
                   doneClosed, frameIndex, tg, barVars>>

\* Stop: if s.doneCh == nil { return }   (no lock is taken)
LiteSpinnerStopCheck(t) ==
    /\ impl = "LiteSpinner" /\ ~panicked
    /\ Idle(t)
    /\ pc' = [pc EXCEPT ![t] = IF doneCh = 0 THEN "idle" ELSE "stop_close"]
    /\ UNCHANGED <<impl, incVars, cfgVars, multiVars, rwtVars, textVars, runVars, out, panicked, calls, spinnerVars, barVars>>

\* Stop: close(s.doneCh); closing a closed channel panics
LiteSpinnerStopClose(t) ==
    /\ impl = "LiteSpinner" /\ ~panicked
    /\ pc[t] = "stop_close"
    /\ IF doneClosed[doneCh]
       THEN /\ panicked' = TRUE
            /\ UNCHANGED <<pc, doneClosed>>
       ELSE /\ doneClosed' = [doneClosed EXCEPT ![doneCh] = TRUE]
            /\ pc' = [pc EXCEPT ![t] = "stop_recv"]
            /\ UNCHANGED panicked
    /\ UNCHANGED <<impl, incVars, cfgVars, multiVars, rwtVars, textVars, runVars, calls, out, lock, running, doneCh, finishedCh, finClosed, gpc,
                   frameIndex, tg, barVars>>

\* Stop: the operand of <-s.finishedCh is read; a nil channel blocks for ever
LiteSpinnerStopRecv(t) ==
    /\ impl = "LiteSpinner" /\ ~panicked
    /\ pc[t] = "stop_recv"
    /\ tg' = [tg EXCEPT ![t] = finishedCh]
    /\ pc' = [pc EXCEPT ![t] = "stop_wait"]
    /\ UNCHANGED <<impl, incVars, cfgVars, multiVars, rwtVars, textVars, runVars, out, panicked, calls, lock, running, doneCh, finishedCh,
                   doneClosed, finClosed, gpc, frameIndex, barVars>>

\* <-s.finishedCh, on the channel that was read
LiteSpinnerStopJoined(t) == tg[t] # 0 /\ finClosed[tg[t]]

\* Stop: the receive completes and Stop returns
LiteSpinnerStopFinish(t) ==
    /\ impl = "LiteSpinner" /\ ~panicked
    /\ pc[t] = "stop_wait"
    /\ LiteSpinnerStopJoined(t)
    /\ tg' = [tg EXCEPT ![t] = 0]
    /\ pc' = [pc EXCEPT ![t] = "idle"]
    /\ UNCHANGED <<impl, incVars, cfgVars, multiVars, rwtVars, textVars, runVars, out, panicked, calls, lock, running, doneCh, finishedCh,
                   doneClosed, finClosed, gpc, frameIndex, barVars>>

LiteSpinnerNext ==
    \/ \E t \in Threads : LiteSpinnerStartLock(t)
    \/ \E t \in Threads : LiteSpinnerStartBody(t)
    \/ \E t \in Threads : LiteSpinnerStartSetDone(t)
    \/ \E t \in Threads : LiteSpinnerStartSetFinished(t)
    \/ \E t \in Threads : LiteSpinnerStopCheck(t)
    \/ \E t \in Threads : LiteSpinnerStopClose(t)
    \/ \E t \in Threads : LiteSpinnerStopRecv(t)
    \/ \E t \in Threads : LiteSpinnerStopFinish(t)
    \/ \E g \in Slots : LiteSpinnerTick(g)
    \/ \E g \in Slots : LiteSpinnerDone(g)
    \/ \E g \in Slots : LiteSpinnerPrintCR(g)
    \/ \E g \in Slots : LiteSpinnerCloseFinished(g)

\* ------------------------------------------------------ Bar (part_000)
\* what a goroutine does when its SetProgress returns: a caller is done, the
\* resize watcher goes round its for loop
BarReturn(p) == IF p \in Threads THEN "idle" ELSE IF p = Fn THEN "fn_ready" ELSE "recv"

FreeWatcher(w) == pc[w] = "none"
NewWatcher == CHOOSE w \in Watchers : FreeWatcher(w) /\ \A x \in Watchers : FreeWatcher(x) => w <= x

\* the lifecycle test of Start
BarStartGuard == started /\ ~stopped

\* Start: one critical section of b.lock, from Lock to the deferred Unlock
BarStart(t) ==
    /\ impl = "Bar" /\ ~panicked
    /\ lock = 0
    /\ BarEnter(t, "call_start")
    /\ IF BarStartGuard
       THEN UNCHANGED <<pc, out, started, stopped, startTime, clock, lastProgress,
                        sigNotify>>
       ELSE /\ cfgWidth = 0 => \E w \in Watchers : FreeWatcher(w)
            /\ started' = TRUE
            /\ stopped' = FALSE
            /\ clock' = clock + 1
            /\ startTime' = clock + 1
            /\ out' = Blank(ClearWidth(totalWidth))
            /\ lastProgress' = 0
            /\ IF cfgWidth = 0
               THEN /\ sigNotify' = TRUE
                    /\ pc' = [pc EXCEPT ![NewWatcher] = "recv"]
               ELSE UNCHANGED <<sigNotify, pc>>
    /\ UNCHANGED <<impl, incVars, cfgVars, multiVars, rwtVars, textVars, panicked, spinnerVars, cfgWidth, totalWidth,
                   termSizeCh, termCols, resizes, arg, filledCount>>

\* handleResize: case <-b.termSizeCh
BarResizeRecv(w) ==
    /\ impl = "Bar" /\ ~panicked
    /\ pc[w] = "recv"
    /\ termSizeCh > 0
    /\ termSizeCh' = termSizeCh - 1
    /\ pc' = [pc EXCEPT ![w] = "resize_lock"]
    /\ UNCHANGED <<impl, incVars, cfgVars, multiVars, rwtVars, textVars, runVars, out, panicked, calls, spinnerVars, cfgWidth, totalWidth,
                   lastProgress, started, stopped, startTime, clock, sigNotify,
                   termCols, resizes, arg, filledCount>>

\* handleResize, from b.lock.Lock() to b.lock.Unlock() and the call of SetProgress
BarResizeLocked(w) ==
    /\ impl = "Bar" /\ ~panicked
    /\ pc[w] = "resize_lock" /\ lock = 0
    /\ IF stopped
       THEN /\ pc' = [pc EXCEPT ![w] = "none"]
            /\ UNCHANGED <<totalWidth, arg>>
       ELSE /\ totalWidth' = CalculateWidth(cfgWidth, termCols)
            /\ arg' = [arg EXCEPT ![w] = lastProgress]
            /\ pc' = [pc EXCEPT ![w] = "sp_check"]
    /\ UNCHANGED <<impl, incVars, cfgVars, multiVars, rwtVars, textVars, runVars, out, panicked, calls, spinnerVars, cfgWidth, lastProgress,
                   started, stopped, startTime, clock, sigNotify, termSizeCh,
                   termCols, resizes, filledCount>>

\* the lifecycle test of Stop
BarStopGuard == stopped

\* Stop, from b.lock.Lock() to b.clearLine()
BarStopBody(t) ==
    /\ impl = "Bar" /\ ~panicked
    /\ lock = 0
    /\ BarEnter(t, "call_stop")
    /\ IF BarStopGuard
       THEN UNCHANGED <<pc, lock, out, stopped, sigNotify>>
       ELSE /\ stopped' = TRUE
            /\ sigNotify' = (IF cfgWidth = 0 THEN FALSE ELSE sigNotify)
            /\ out' = Blank(ClearWidth(totalWidth))
            /\ lock' = t
            /\ pc' = [pc EXCEPT ![t] = "stop_cr"]
    /\ UNCHANGED <<impl, incVars, cfgVars, multiVars, rwtVars, textVars, panicked, spinnerVarsButLock, cfgWidth, totalWidth,
                   lastProgress, started, startTime, clock, termSizeCh, termCols,
                   resizes, arg, filledCount>>

\* Stop: fmt.Fprintf(b.config.Writer, "\r") and the deferred Unlock
BarStopFinish(t) ==
    /\ impl = "Bar" /\ ~panicked
    /\ pc[t] = "stop_cr"
    /\ out' = Item("cr", 0)
    /\ lock' = 0
    /\ pc' = [pc EXCEPT ![t] = "idle"]
    /\ UNCHANGED <<impl, incVars, cfgVars, multiVars, rwtVars, textVars, runVars, panicked, calls, spinnerVarsButLock, barVars>>

\* a lifecycle test that lets a Bar that was never started through
BarSetProgressGuardStoppedOnly == stopped

\* the lifecycle test of SetProgress
BarSetProgressGuard == ~started \/ stopped

\* a caller calls SetProgress(v)
BarSetProgress(t) ==
    /\ impl = "Bar" /\ ~panicked
    /\ Idle(t)
    /\ calls < MaxCalls
    /\ calls' = calls + 1
    /\ \E v \in Progresses : arg' = [arg EXCEPT ![t] = v]
    /\ delta' = [delta EXCEPT ![t] = 0]
    /\ pc' = [pc EXCEPT ![t] = "sp_check"]
    /\ UNCHANGED <<impl, current, cfgVars, multiVars, rwtVars, textVars, runVars, out, panicked, spinnerVars, cfgWidth, totalWidth,
                   lastProgress, started, stopped, startTime, clock, sigNotify,
                   termSizeCh, termCols, resizes, filledCount>>

\* SetProgress: the section under b.lock.RLock()
BarSetProgressCheck(p) ==
    /\ impl = "Bar" /\ ~panicked
    /\ pc[p] = "sp_check" /\ lock = 0
    /\ IF BarSetProgressGuard
       THEN /\ pc' = [pc EXCEPT ![p] = BarReturn(p)]
            /\ arg' = [arg EXCEPT ![p] = 0]
            /\ current' = [current EXCEPT ![p] = 0]
       ELSE /\ pc' = [pc EXCEPT ![p] = "sp_store"]
            /\ UNCHANGED <<arg, current>>
    /\ UNCHANGED <<impl, delta, cfgVars, multiVars, rwtVars, textVars, runVars, out, panicked, calls, spinnerVars, cfgWidth, totalWidth,
                   lastProgress, started, stopped, startTime, clock, sigNotify,
                   termSizeCh, termCols, resizes, filledCount>>

\* SetProgress: the clamp, and b.lastProgress = progress under b.lock.Lock()
BarSetProgressStore(p) ==
    /\ impl = "Bar" /\ ~panicked
    /\ pc[p] = "sp_store" /\ lock = 0
    /\ arg' = [arg EXCEPT ![p] = Clamp(arg[p])]
    /\ lastProgress' = Clamp(arg[p])
    /\ current' = [current EXCEPT ![p] = 0]
    /\ pc' = [pc EXCEPT ![p] = "sp_render"]
    /\ UNCHANGED <<impl, delta, cfgVars, multiVars, rwtVars, textVars, runVars, out, panicked, calls, spinnerVars, cfgWidth, totalWidth,
                   started, stopped, startTime, clock, sigNotify, termSizeCh,
                   termCols, resizes, filledCount>>

\* SetProgress: filledCount := int(float64(b.totalWidth) * progress), no lock held
BarSetProgressRender(p) ==
    /\ impl = "Bar" /\ ~panicked
    /\ pc[p] = "sp_render"
    /\ filledCount' = [filledCount EXCEPT ![p] = (totalWidth * arg[p]) \div One]
    /\ pc' = [pc EXCEPT ![p] = "sp_write"]
    /\ UNCHANGED <<impl, incVars, cfgVars, multiVars, rwtVars, textVars, runVars, out, panicked, calls, spinnerVars, cfgWidth, totalWidth,
                   lastProgress, started, stopped, startTime, clock, sigNotify,
                   termSizeCh, termCols, resizes, arg>>

\* SetProgress: emptyCount := b.totalWidth - filledCount, the line is built and
\* written with fmt.Fprint, no lock held
BarSetProgressWrite(p) ==
    /\ impl = "Bar" /\ ~panicked
    /\ pc[p] = "sp_write"
    /\ LET emptyCount == totalWidth - filledCount[p] IN
       out' = BarFrame(arg[p], filledCount[p], Max(0, emptyCount))
    /\ pc' = [pc EXCEPT ![p] = BarReturn(p)]
    /\ arg' = [arg EXCEPT ![p] = 0]
    /\ filledCount' = [filledCount EXCEPT ![p] = 0]
    /\ UNCHANGED <<impl, incVars, cfgVars, multiVars, rwtVars, textVars, runVars, panicked, calls, spinnerVars, cfgWidth, totalWidth,
                   lastProgress, started, stopped, startTime, clock, sigNotify,
                   termSizeCh, termCols, resizes>>

\* an Increment that passes delta alone to SetProgress
IncrementArgNoCurrent(cur, d) == d

\* Increment: the argument of its SetProgress call, current + delta
IncrementArg(cur, d) == cur + d

\* Increment: current := b.lastProgress under b.lock.RLock(), then the call
\* b.SetProgress(current + delta)
BarIncrement(t) ==
    /\ impl = "Bar" /\ ~panicked
    /\ Idle(t) /\ lock = 0
    /\ calls < MaxCalls
    /\ calls' = calls + 1
    /\ \E d \in Deltas : /\ delta' = [delta EXCEPT ![t] = d]
                        /\ arg' = [arg EXCEPT ![t] = IncrementArg(lastProgress, d)]
    /\ current' = [current EXCEPT ![t] = lastProgress]
    /\ pc' = [pc EXCEPT ![t] = "sp_check"]
    /\ UNCHANGED <<impl, cfgVars, multiVars, rwtVars, textVars, runVars, out, panicked,
                   spinnerVars, cfgWidth, totalWidth, lastProgress, started, stopped,
                   startTime, clock, sigNotify, termSizeCh, termCols, resizes,
                   filledCount>>

\* Reset: one critical section of b.lock
BarReset(t) ==
    /\ impl = "Bar" /\ ~panicked
    /\ Idle(t) /\ lock = 0
    /\ calls < MaxCalls
    /\ calls' = calls + 1
    /\ lastProgress' = 0
    /\ started' = FALSE
    /\ stopped' = FALSE
    /\ startTime' = 0
    /\ UNCHANGED <<impl, incVars, cfgVars, multiVars, rwtVars, textVars, runVars, pc, out,
                   panicked, spinnerVars, cfgWidth, totalWidth, clock, sigNotify,
                   termSizeCh, termCols, resizes, arg, filledCount>>

\* the terminal is resized: SIGWINCH is sent to the channel signal.Notify
\* registered, unless its one-slot buffer is full
BarResize ==
    /\ impl = "Bar" /\ ~panicked
    /\ cfgWidth = 0
    /\ resizes < MaxResizes
    /\ resizes' = resizes + 1
    /\ \E c \in TermCols \ {termCols} : termCols' = c
    /\ termSizeCh' = (IF sigNotify THEN 1 ELSE termSizeCh)
    /\ UNCHANGED <<impl, incVars, cfgVars, multiVars, rwtVars, textVars, runVars, pc, out, panicked, calls, spinnerVars, cfgWidth,
                   totalWidth, lastProgress, started, stopped, startTime, clock,
                   sigNotify, arg, filledCount>>

\* Run is called: it goes on to b.Start().  Run is explored as the only call
\* made on a fresh bar: it takes the whole budget of calls.
BarRun(t) ==
    /\ impl = "Bar" /\ ~panicked
    /\ Idle(t)
    /\ calls = 0
    /\ pc[Fn] = "none" /\ \A u \in Threads : outer[u] = "none"
    /\ calls' = MaxCalls
    /\ outer' = [outer EXCEPT ![t] = "call_start"]
    /\ fnDone' = FALSE
    /\ fnCalls' = 0
    /\ UNCHANGED <<impl, incVars, cfgVars, multiVars, rwtVars, textVars, pc, out, panicked, spinnerVars, barVars>>

\* Run, after Start has returned: wg.Add(1) and the go statement
BarRunGo(t) ==
    /\ impl = "Bar" /\ ~panicked
    /\ pc[t] = "idle" /\ outer[t] = "in_start"
    /\ pc' = [pc EXCEPT ![Fn] = "fn_ready"]
    /\ outer' = [outer EXCEPT ![t] = "wait"]
    /\ UNCHANGED <<impl, incVars, cfgVars, multiVars, rwtVars, textVars, fnDone, fnCalls, out, panicked, calls,
                   spinnerVars, barVars>>

\* Run: wg.Wait() returns, the deferred b.Stop() is next
BarRunWait(t) ==
    /\ impl = "Bar" /\ ~panicked
    /\ outer[t] = "wait"
    /\ fnDone
    /\ outer' = [outer EXCEPT ![t] = "call_stop"]
    /\ UNCHANGED <<impl, incVars, cfgVars, multiVars, rwtVars, textVars, fnDone, fnCalls, pc, out, panicked, calls,
                   spinnerVars, barVars>>

\* Run returns, after the deferred Stop has returned
BarRunReturn(t) ==
    /\ impl = "Bar" /\ ~panicked
    /\ pc[t] = "idle" /\ outer[t] = "in_stop"
    /\ outer' = [outer EXCEPT ![t] = "none"]
    /\ UNCHANGED <<impl, incVars, cfgVars, multiVars, rwtVars, textVars, fnDone, fnCalls, pc, out, panicked, calls,
                   spinnerVars, barVars>>

\* the function given to Run calls setProgress(v)
BarFnSetProgress ==
    /\ impl = "Bar" /\ ~panicked
    /\ pc[Fn] = "fn_ready"
    /\ fnCalls < MaxFnCalls
    /\ fnCalls' = fnCalls + 1
    /\ \E v \in Progresses : arg' = [arg EXCEPT ![Fn] = v]
    /\ pc' = [pc EXCEPT ![Fn] = "sp_check"]
    /\ UNCHANGED <<impl, incVars, cfgVars, multiVars, rwtVars, textVars, outer, fnDone, out, panicked, calls, spinnerVars,
                   cfgWidth, totalWidth, lastProgress, started, stopped, startTime,
                   clock, sigNotify, termSizeCh, termCols, resizes, filledCount>>

\* the function given to Run returns: defer wg.Done()
BarFnReturn ==
    /\ impl = "Bar" /\ ~panicked
    /\ pc[Fn] = "fn_ready"
    /\ pc' = [pc EXCEPT ![Fn] = "none"]
    /\ fnDone' = TRUE
    /\ UNCHANGED <<impl, incVars, cfgVars, multiVars, rwtVars, textVars, outer, fnCalls, out, panicked, calls, spinnerVars,
                   barVars>>

BarNext ==
    \/ \E t \in Threads : BarIncrement(t)
    \/ \E t \in Threads : BarReset(t)
    \/ \E t \in Threads : BarRun(t)
    \/ \E t \in Threads : BarRunGo(t)
    \/ \E t \in Threads : BarRunWait(t)
    \/ \E t \in Threads : BarRunReturn(t)
    \/ BarFnSetProgress
    \/ BarFnReturn
    \/ \E t \in Threads : BarStart(t)
    \/ \E t \in Threads : BarStopBody(t)
    \/ \E t \in Threads : BarStopFinish(t)
    \/ \E t \in Threads : BarSetProgress(t)
    \/ \E p \in Procs : BarSetProgressCheck(p)
    \/ \E p \in Procs : BarSetProgressStore(p)
    \/ \E p \in Procs : BarSetProgressRender(p)
    \/ \E p \in Procs : BarSetProgressWrite(p)
    \/ \E w \in Watchers : BarResizeRecv(w)
    \/ \E w \in Watchers : BarResizeLocked(w)
    \/ BarResize

\* ------------------------------------ progress.Bar (src/progress/progress.go)
\* Start: b.clearLine(); strings.Repeat panics on a negative count
LiteBarStartClear(t) ==
    /\ impl = "LiteBar" /\ ~panicked
    /\ \E w \in Watchers : FreeWatcher(w)
    /\ BarEnter(t, "call_start")
    /\ IF totalWidth < 0
       THEN /\ panicked' = TRUE
            /\ UNCHANGED <<pc, out>>
       ELSE /\ out' = Blank(totalWidth)
            /\ pc' = [pc EXCEPT ![t] = "start_rest"]
            /\ UNCHANGED panicked
    /\ UNCHANGED <<impl, incVars, cfgVars, multiVars, rwtVars, textVars, spinnerVars, barVars>>

\* Start: b.lastPosition = 0; signal.Notify; the go statement
LiteBarStartRest(t) ==
    /\ impl = "LiteBar" /\ ~panicked
    /\ pc[t] = "start_rest"
    /\ \E w \in Watchers : FreeWatcher(w)
    /\ lastProgress' = 0
    /\ sigNotify' = TRUE
    /\ pc' = [pc EXCEPT ![t] = "idle", ![NewWatcher] = "recv"]
    /\ UNCHANGED <<impl, incVars, cfgVars, multiVars, rwtVars, textVars, runVars, out, panicked, calls, spinnerVars, cfgWidth, totalWidth,
                   started, stopped, startTime, clock, termSizeCh, termCols,
                   resizes, arg, filledCount>>

\* the terminal is resized: SIGWINCH reaches the unbuffered b.termSizeCh only
\* if a goroutine is receiving from it (<-b.termSizeCh)
LiteBarResize ==
    /\ impl = "LiteBar" /\ ~panicked
    /\ resizes < MaxResizes
    /\ resizes' = resizes + 1
    /\ \E c \in TermCols \ {termCols} : termCols' = c
    /\ IF sigNotify /\ \E w \in Watchers : pc[w] = "recv"
       THEN \E w \in Watchers : /\ pc[w] = "recv"
                                /\ pc' = [pc EXCEPT ![w] = "resize_size"]
       ELSE UNCHANGED pc
    /\ UNCHANGED <<impl, incVars, cfgVars, multiVars, rwtVars, textVars, runVars, out, panicked, calls, spinnerVars, cfgWidth, totalWidth,
                   lastProgress, started, stopped, startTime, clock, sigNotify,
                   termSizeCh, arg, filledCount>>

\* the resize goroutine: b.totalWidth = width - 1
LiteBarResizeSize(w) ==
    /\ impl = "LiteBar" /\ ~panicked
    /\ pc[w] = "resize_size"
    /\ totalWidth' = LiteCalculateWidth(termCols)
    /\ pc' = [pc EXCEPT ![w] = "resize_call"]
    /\ UNCHANGED <<impl, incVars, cfgVars, multiVars, rwtVars, textVars, runVars, out, panicked, calls, spinnerVars, cfgWidth,
                   lastProgress, started, stopped, startTime, clock, sigNotify,
                   termSizeCh, termCols, resizes, arg, filledCount>>

\* the resize goroutine: b.SetProgress(b.lastPosition), the argument is read
LiteBarResizeCall(w) ==
    /\ impl = "LiteBar" /\ ~panicked
    /\ pc[w] = "resize_call"
    /\ arg' = [arg EXCEPT ![w] = lastProgress]
    /\ pc' = [pc EXCEPT ![w] = "sp_store"]
    /\ UNCHANGED <<impl, incVars, cfgVars, multiVars, rwtVars, textVars, runVars, out, panicked, calls, spinnerVars, cfgWidth, totalWidth,
                   lastProgress, started, stopped, startTime, clock, sigNotify,
                   termSizeCh, termCols, resizes, filledCount>>

\* the resize goroutine, inside SetProgress: b.lastPosition = progress
LiteBarResizeStore(w) ==
    /\ impl = "LiteBar" /\ ~panicked
    /\ pc[w] = "sp_store"
    /\ lastProgress' = arg[w]
    /\ pc' = [pc EXCEPT ![w] = "sp_render"]
    /\ UNCHANGED <<impl, incVars, cfgVars, multiVars, rwtVars, textVars, runVars, out, panicked, calls, spinnerVars, cfgWidth, totalWidth,
                   started, stopped, startTime, clock, sigNotify, termSizeCh,
                   termCols, resizes, arg, filledCount>>

\* a caller's SetProgress(v): b.lastPosition = progress
LiteBarSetProgress(t) ==
    /\ impl = "LiteBar" /\ ~panicked
    /\ Idle(t)
    /\ calls < MaxCalls
    /\ calls' = calls + 1
    /\ \E v \in Progresses : /\ arg' = [arg EXCEPT ![t] = v]
                             /\ lastProgress' = v
    /\ pc' = [pc EXCEPT ![t] = "sp_render"]
    /\ UNCHANGED <<impl, incVars, cfgVars, multiVars, rwtVars, textVars, runVars, out, panicked, spinnerVars, cfgWidth, totalWidth,
                   started, stopped, startTime, clock, sigNotify, termSizeCh,
                   termCols, resizes, filledCount>>

\* SetProgress: filledCount := int(float64(b.totalWidth) * progress)
LiteBarSetProgressRender(p) ==
    /\ impl = "LiteBar" /\ ~panicked
    /\ pc[p] = "sp_render"
    /\ filledCount' = [filledCount EXCEPT ![p] = Trunc(totalWidth * arg[p], One)]
    /\ pc' = [pc EXCEPT ![p] = "sp_write"]
    /\ UNCHANGED <<impl, incVars, cfgVars, multiVars, rwtVars, textVars, runVars, out, panicked, calls, spinnerVars, cfgWidth, totalWidth,
                   lastProgress, started, stopped, startTime, clock, sigNotify,
                   termSizeCh, termCols, resizes, arg>>

\* SetProgress: emptyCount := b.totalWidth - filledCount; strings.Repeat of each
\* count (a negative count panics); fmt.Printf
LiteBarSetProgressWrite(p) ==
    /\ impl = "LiteBar" /\ ~panicked
    /\ pc[p] = "sp_write"
    /\ LET emptyCount == totalWidth - filledCount[p] IN
       IF filledCount[p] < 0 \/ emptyCount < 0
       THEN /\ panicked' = TRUE
            /\ UNCHANGED <<out, pc, arg, filledCount>>
       ELSE /\ out' = BarFrame(arg[p], filledCount[p], emptyCount)
            /\ pc' = [pc EXCEPT ![p] = IF p \in Threads THEN "idle"
                                       ELSE IF p = Fn THEN "fn_ready" ELSE "none"]
            /\ arg' = [arg EXCEPT ![p] = 0]
            /\ filledCount' = [filledCount EXCEPT ![p] = 0]
            /\ UNCHANGED panicked
    /\ UNCHANGED <<impl, incVars, cfgVars, multiVars, rwtVars, textVars, runVars, calls, spinnerVars, cfgWidth, totalWidth,
                   lastProgress, started, stopped, startTime, clock, sigNotify,
                   termSizeCh, termCols, resizes>>

\* Stop: b.clearLine()
LiteBarStopClear(t) ==
    /\ impl = "LiteBar" /\ ~panicked
    /\ BarEnter(t, "call_stop")
    /\ IF totalWidth < 0
       THEN /\ panicked' = TRUE
            /\ UNCHANGED <<pc, out>>
       ELSE /\ out' = Blank(totalWidth)
            /\ pc' = [pc EXCEPT ![t] = "stop_cr"]
            /\ UNCHANGED panicked
    /\ UNCHANGED <<impl, incVars, cfgVars, multiVars, rwtVars, textVars, spinnerVars, barVars>>

\* Stop: fmt.Print("\r")
LiteBarStopFinish(t) ==
    /\ impl = "LiteBar" /\ ~panicked
    /\ pc[t] = "stop_cr"
    /\ out' = Item("cr", 0)
    /\ pc' = [pc EXCEPT ![t] = "idle"]
    /\ UNCHANGED <<impl, incVars, cfgVars, multiVars, rwtVars, textVars, runVars, panicked, calls, spinnerVars, barVars>>

\* Run is called: it goes on to b.Start().  Run is explored as the only call
\* made on a fresh bar: it takes the whole budget of calls.
LiteBarRun(t) ==
    /\ impl = "LiteBar" /\ ~panicked
    /\ Idle(t)
    /\ calls = 0
    /\ pc[Fn] = "none" /\ \A u \in Threads : outer[u] = "none"
    /\ calls' = MaxCalls
    /\ outer' = [outer EXCEPT ![t] = "call_start"]
    /\ fnDone' = FALSE
    /\ fnCalls' = 0
    /\ UNCHANGED <<impl, incVars, cfgVars, multiVars, rwtVars, textVars, pc, out, panicked, spinnerVars, barVars>>

\* Run, after Start has returned: wg.Add(1) and the go statement; b.Stop() is
\* next, the WaitGroup is never waited for
LiteBarRunGo(t) ==
    /\ impl = "LiteBar" /\ ~panicked
    /\ pc[t] = "idle" /\ outer[t] = "in_start"
    /\ pc' = [pc EXCEPT ![Fn] = "fn_ready"]
    /\ outer' = [outer EXCEPT ![t] = "call_stop"]
    /\ UNCHANGED <<impl, incVars, cfgVars, multiVars, rwtVars, textVars, fnDone, fnCalls, out, panicked, calls,
                   spinnerVars, barVars>>

\* Run returns, after Stop has returned
LiteBarRunReturn(t) ==
    /\ impl = "LiteBar" /\ ~panicked
    /\ pc[t] = "idle" /\ outer[t] = "in_stop"
    /\ outer' = [outer EXCEPT ![t] = "none"]
    /\ UNCHANGED <<impl, incVars, cfgVars, multiVars, rwtVars, textVars, fnDone, fnCalls, pc, out, panicked, calls,
                   spinnerVars, barVars>>

\* the function given to Run calls b.SetProgress(v): b.lastPosition = progress
LiteBarFnSetProgress ==
    /\ impl = "LiteBar" /\ ~panicked
    /\ pc[Fn] = "fn_ready"
    /\ fnCalls < MaxFnCalls
    /\ fnCalls' = fnCalls + 1
    /\ \E v \in Progresses : /\ arg' = [arg EXCEPT ![Fn] = v]
                             /\ lastProgress' = v
    /\ pc' = [pc EXCEPT ![Fn] = "sp_render"]
    /\ UNCHANGED <<impl, incVars, cfgVars, multiVars, rwtVars, textVars, outer, fnDone, out, panicked, calls, spinnerVars,
                   cfgWidth, totalWidth, started, stopped, startTime, clock,
                   sigNotify, termSizeCh, termCols, resizes, filledCount>>

\* the function given to Run returns: defer wg.Done()
LiteBarFnReturn ==
    /\ impl = "LiteBar" /\ ~panicked
    /\ pc[Fn] = "fn_ready"
    /\ pc' = [pc EXCEPT ![Fn] = "none"]
    /\ fnDone' = TRUE
    /\ UNCHANGED <<impl, incVars, cfgVars, multiVars, rwtVars, textVars, outer, fnCalls, out, panicked, calls, spinnerVars,
                   barVars>>

LiteBarNext ==
    \/ \E t \in Threads : LiteBarRun(t)
    \/ \E t \in Threads : LiteBarRunGo(t)
    \/ \E t \in Threads : LiteBarRunReturn(t)
    \/ LiteBarFnSetProgress
    \/ LiteBarFnReturn
    \/ \E t \in Threads : LiteBarStartClear(t)
    \/ \E t \in Threads : LiteBarStartRest(t)
    \/ \E t \in Threads : LiteBarStopClear(t)
    \/ \E t \in Threads : LiteBarStopFinish(t)
    \/ \E t \in Threads : LiteBarSetProgress(t)
    \/ \E p \in Procs : LiteBarSetProgressRender(p)
    \/ \E p \in Procs : LiteBarSetProgressWrite(p)
    \/ \E w \in Watchers : LiteBarResizeSize(w)
    \/ \E w \in Watchers : LiteBarResizeCall(w)
    \/ \E w \in Watchers : LiteBarResizeStore(w)
    \/ LiteBarResize

\* --------------------- MultiBar (part_000) and MultiSpinner (part_001)
\* The registry methods are explored with one caller.  Each instance is kept as
\* the outcome of its Bar / Spinner methods, which are modelled step by step
\* above; no terminal resize happens in these histories.

\* len(mb.bars) / len(ms.spinners)
Size == Cardinality({n \in Names : reg[n] # 0})

\* an if that is entered whether or not the name is registered
MultiExistsNoGuard == TRUE

\* bar, exists := mb.bars[name]
MultiExists == reg[mname] # 0

\* Bar.Start on b: no-op while Running; else the lifecycle is reset and an
\* auto-width Bar gets a resize watcher
LabeledBarStart(b) ==
    IF b.started /\ ~b.stopped THEN b
    ELSE [b EXCEPT !.started = TRUE, !.stopped = FALSE, !.lastProgress = 0,
                   !.bg = IF b.width = 0 THEN "alive" ELSE b.bg]

\* Bar.Stop on b: the watcher is not signalled and stays in its receive
LabeledBarStop(b) == IF b.stopped THEN b ELSE [b EXCEPT !.stopped = TRUE]

\* Bar.SetProgress on b
LabeledBarSetProgress(b, v) ==
    IF ~b.started \/ b.stopped THEN b ELSE [b EXCEPT !.lastProgress = Clamp(v)]

\* Spinner.Start on s
LabeledSpinnerStart(s) ==
    IF s.running THEN s ELSE [s EXCEPT !.running = TRUE, !.bg = "alive"]

\* Spinner.Stop on s: close(s.doneCh); <-s.finishedCh
LabeledSpinnerStop(s) ==
    IF ~s.running THEN s ELSE [s EXCEPT !.running = FALSE, !.bg = "exited"]

MultiReady == ~panicked /\ mpc \in {"idle", "done"} /\ mcalls < MaxMultiCalls

\* MultiBar.Add(name, label, config)
MultiBarAdd(n, l, w) ==
    /\ impl = "MultiBar" /\ MultiReady
    /\ adds < MaxAdds
    /\ adds' = adds + 1
    /\ mcalls' = mcalls + 1
    /\ inst' = [inst EXCEPT ![adds + 1] =
                   [NoInst EXCEPT !.label = l, !.width = w, !.line = Size]]
    /\ reg' = [reg EXCEPT ![n] = adds + 1]
    /\ mop' = "Add" /\ mname' = n /\ mpc' = "done"
    /\ UNCHANGED <<impl, incVars, cfgVars, rwtVars, textVars, runVars, marg, todo, pc, out, panicked,
                   calls, spinnerVars, barVars>>

\* MultiSpinner.Add(name, label): WithPrefix(label + " ")
MultiSpinnerAdd(n, l) ==
    /\ impl = "MultiSpinner" /\ MultiReady
    /\ adds < MaxAdds
    /\ adds' = adds + 1
    /\ mcalls' = mcalls + 1
    /\ inst' = [inst EXCEPT ![adds + 1] =
                   [NoInst EXCEPT !.label = l, !.prefix = l, !.line = Size]]
    /\ reg' = [reg EXCEPT ![n] = adds + 1]
    /\ mop' = "Add" /\ mname' = n /\ mpc' = "done"
    /\ UNCHANGED <<impl, incVars, cfgVars, rwtVars, textVars, runVars, marg, todo, pc, out, panicked,
                   calls, spinnerVars, barVars>>

\* the methods that take a name
MultiOps == IF impl = "MultiBar" THEN {"Start", "Stop", "SetProgress"}
            ELSE {"Start", "Stop", "UpdateLabel"}

\* a method that looks a name up is called: mb.lock.RLock()
MultiCall(op, n) ==
    /\ impl \in {"MultiBar", "MultiSpinner"} /\ MultiReady
    /\ op \in MultiOps
    /\ mop' = op /\ mname' = n /\ mpc' = "lookup"
    /\ mcalls' = mcalls + 1
    /\ marg' \in (CASE op = "SetProgress" -> Progresses
                    [] op = "UpdateLabel" -> Labels
                    [] OTHER -> {0})
    /\ UNCHANGED <<impl, incVars, cfgVars, rwtVars, textVars, runVars, reg, inst, adds, todo, pc, out,
                   panicked, calls, spinnerVars, barVars>>

\* StartAll / StopAll is called: the range loop visits every entry of the map
MultiCallAll(op) ==
    /\ \/ impl = "MultiBar" /\ op = "StopAll"
       \/ impl = "MultiSpinner" /\ op \in {"StartAll", "StopAll"}
    /\ MultiReady
    /\ mop' = op /\ mpc' = "loop"
    /\ mcalls' = mcalls + 1
    /\ todo' = {reg[n] : n \in {m \in Names : reg[m] # 0}}
    /\ UNCHANGED <<impl, incVars, cfgVars, rwtVars, textVars, runVars, reg, inst, adds, mname, marg, pc,
                   out, panicked, calls, spinnerVars, barVars>>

\* the body of a method that looks a name up; f is what it does to the
\* instance and o what it has written last.  Reading a field of the nil
\* instance of an absent name is a nil pointer dereference.
MultiBody(f, o) ==
    /\ ~panicked /\ mpc = "lookup"
    /\ mpc' = "done"
    /\ IF MultiExists
       THEN IF reg[mname] = 0
            THEN panicked' = TRUE /\ UNCHANGED <<inst, out>>
            ELSE /\ inst' = [inst EXCEPT ![reg[mname]] = f]
                 /\ out' = o
                 /\ UNCHANGED panicked
       ELSE UNCHANGED <<inst, out, panicked>>
    /\ UNCHANGED <<impl, incVars, cfgVars, rwtVars, textVars, runVars, reg, adds, mcalls, mop, mname,
                   marg, todo, pc, calls, spinnerVars, barVars>>

\* the instance registered under the name of the call
MultiInst == inst[IF reg[mname] = 0 THEN 1 ELSE reg[mname]]

\* MultiBar.Start(name): the label, then bar.Start()
MultiBarStart ==
    /\ impl = "MultiBar" /\ mop = "Start"
    /\ MultiBody(LabeledBarStart(MultiInst),
                 IF MultiInst.started /\ ~MultiInst.stopped
                 THEN Item("label", MultiInst.label) ELSE Item("clear", 0))

\* MultiBar.Stop(name): bar.Stop(), then "label: Complete!"
MultiBarStop ==
    /\ impl = "MultiBar" /\ mop = "Stop"
    /\ MultiBody(LabeledBarStop(MultiInst), Item("complete", MultiInst.label))

\* MultiBar.SetProgress(name, progress)
MultiBarSetProgress ==
    /\ impl = "MultiBar" /\ mop = "SetProgress"
    /\ MultiBody(LabeledBarSetProgress(MultiInst, marg),
                 IF ~MultiInst.started \/ MultiInst.stopped
                 THEN out ELSE Item("frame", Clamp(marg)))

\* MultiSpinner.Start(name)
MultiSpinnerStart ==
    /\ impl = "MultiSpinner" /\ mop = "Start"
    /\ MultiBody(LabeledSpinnerStart(MultiInst), out)

\* MultiSpinner.Stop(name): the goroutine's deferred clearLine is the last write
MultiSpinnerStop ==
    /\ impl = "MultiSpinner" /\ mop = "Stop"
    /\ MultiBody(LabeledSpinnerStop(MultiInst),
                 IF MultiInst.running THEN Item("clear", 0) ELSE out)

\* MultiSpinner.UpdateLabel(name, newLabel)
MultiSpinnerUpdateLabel ==
    /\ impl = "MultiSpinner" /\ mop = "UpdateLabel"
    /\ MultiBody([MultiInst EXCEPT !.prefix = marg, !.label = marg], out)

\* one iteration of the range loop of MultiBar.StopAll
MultiBarStopAllStep(i) ==
    /\ impl = "MultiBar" /\ ~panicked
    /\ mpc = "loop" /\ mop = "StopAll"
    /\ i \in todo
    /\ todo' = todo \ {i}
    /\ inst' = [inst EXCEPT ![i] = LabeledBarStop(inst[i])]
    /\ out' = IF inst[i].stopped THEN out ELSE Item("cr", 0)
    /\ UNCHANGED <<impl, incVars, cfgVars, rwtVars, textVars, runVars, reg, adds, mcalls, mpc, mop,
                   mname, marg, pc, panicked, calls, spinnerVars, barVars>>

\* one iteration of the range loop of MultiSpinner.StartAll / StopAll
MultiSpinnerAllStep(i) ==
    /\ impl = "MultiSpinner" /\ ~panicked
    /\ mpc = "loop" /\ mop \in {"StartAll", "StopAll"}
    /\ i \in todo
    /\ todo' = todo \ {i}
    /\ inst' = [inst EXCEPT ![i] = IF mop = "StartAll" THEN LabeledSpinnerStart(inst[i])
                                   ELSE LabeledSpinnerStop(inst[i])]
    /\ out' = IF mop = "StopAll" /\ inst[i].running THEN Item("clear", 0) ELSE out
    /\ UNCHANGED <<impl, incVars, cfgVars, rwtVars, textVars, runVars, reg, adds, mcalls, mpc, mop,
                   mname, marg, pc, panicked, calls, spinnerVars, barVars>>

\* the range loop is over: StartAll / StopAll returns
MultiAllReturn ==
    /\ impl \in {"MultiBar", "MultiSpinner"} /\ ~panicked
    /\ mpc = "loop" /\ todo = {}
    /\ mpc' = "done"
    /\ UNCHANGED <<impl, incVars, cfgVars, rwtVars, textVars, runVars, reg, inst, adds, mcalls, mop,
                   mname, marg, todo, pc, out, panicked, calls, spinnerVars, barVars>>

MultiNext ==
    \/ \E n \in Names, l \in Labels, w \in {0, FixedWidth} : MultiBarAdd(n, l, w)
    \/ \E n \in Names, l \in Labels : MultiSpinnerAdd(n, l)
    \/ \E op \in {"Start", "Stop", "SetProgress", "UpdateLabel"}, n \in Names :
          MultiCall(op, n)
    \/ \E op \in {"StartAll", "StopAll"} : MultiCallAll(op)
    \/ MultiBarStart
    \/ MultiBarStop
    \/ MultiBarSetProgress
    \/ MultiSpinnerStart
    \/ MultiSpinnerStop
    \/ MultiSpinnerUpdateLabel
    \/ \E i \in Insts : MultiBarStopAllStep(i)
    \/ \E i \in Insts : MultiSpinnerAllStep(i)
    \/ MultiAllReturn

InitMulti == impl \in {"MultiBar", "MultiSpinner"} /\ DefaultConfig /\ InitState
SpecMulti == InitMulti /\ [][MultiNext]_vars

\* New and NewBarWithConfig with any options
InitConfig ==
    /\ impl \in {"Spinner", "Bar"}
    /\ nframes \in (IF impl = "Spinner" THEN FrameCounts ELSE {NFrames})
    /\ frameDuration \in (IF impl = "Spinner" THEN FrameDurations ELSE {1})
    /\ cfgWidth \in (IF impl = "Bar" THEN Widths ELSE {0})
    /\ InitState
NextConfig == SpinnerNext \/ BarNext \/ \E g \in Slots : SpinnerNewTicker(g)
SpecConfig == InitConfig /\ [][NextConfig]_vars

Next == SpinnerNext \/ LiteSpinnerNext \/ BarNext \/ LiteBarNext

\* every implementation
Spec == Init /\ [][Next]_vars

\* the two spinners
InitSpinners == Init /\ impl \in {"Spinner", "LiteSpinner"}
NextSpinners == SpinnerNext \/ LiteSpinnerNext
SpecSpinners == InitSpinners /\ [][NextSpinners]_vars

\* the Spinner of part_001 under direct calls of Start, Stop, IsRunning,
\* SetPrefix and SetSuffix (Restart is a Stop followed by a Start of the same
\* caller), with callers that park on the mutex, under fair scheduling
InitSpinnerLive == Init /\ impl = "Spinner"
SpinnerLiveNext ==
    \/ \E t \in Threads : SpinnerStartLock(t)
    \/ \E t \in Threads : SpinnerStopLock(t)
    \/ \E t \in Threads : SpinnerIsRunningLock(t)
    \/ \E t \in Threads : SpinnerSetPrefixLock(t)
    \/ \E t \in Threads : SpinnerSetSuffixLock(t)
    \/ \E t \in Threads : SpinnerBlock(t)
    \/ \E t \in Threads : SpinnerAcquire(t)
    \/ \E t \in Threads : SpinnerStartBody(t)
    \/ \E t \in Threads : SpinnerStartPublish(t)
    \/ \E t \in Threads : SpinnerStopBody(t)
    \/ \E t \in Threads : SpinnerStopFinish(t)
    \/ \E t \in Threads : SpinnerIsRunningBody(t)
    \/ \E t \in Threads : SpinnerSetPrefixBody(t)
    \/ \E t \in Threads : SpinnerSetSuffixBody(t)
    \/ \E g \in Slots : SpinnerTick(g)
    \/ \E g \in Slots : SpinnerDone(g)
    \/ \E g \in Slots : SpinnerClearLine(g)
    \/ \E g \in Slots : SpinnerCloseFinished(g)

\* a caller that holds the mutex runs on to its return
SpinnerThreadStep(t) ==
    \/ SpinnerStartBody(t)
    \/ SpinnerStartPublish(t)
    \/ SpinnerStopBody(t)
    \/ SpinnerStopFinish(t)
    \/ SpinnerIsRunningBody(t)
    \/ SpinnerSetPrefixBody(t)
    \/ SpinnerSetSuffixBody(t)

\* the animation goroutine leaves its loop once doneCh is closed (select
\* chooses at random among its ready cases) and runs its deferred calls
SpinnerExit(g) ==
    \/ SpinnerDone(g)
    \/ SpinnerClearLine(g)
    \/ SpinnerCloseFinished(g)

\* fair scheduling: running code makes progress, and a caller parked on the
\* mutex is not overtaken for ever (sync.Mutex hands the lock to a starving
\* waiter)
SpinnerFair ==
    /\ \A t \in Threads : WF_vars(SpinnerThreadStep(t))
    /\ \A t \in Threads : SF_vars(SpinnerAcquire(t))
    /\ \A g \in Slots : WF_vars(SpinnerExit(g))

SpecSpinnerLive == InitSpinnerLive /\ [][SpinnerLiveNext]_vars /\ SpinnerFair

\* the two bars
InitBars == Init /\ impl \in {"Bar", "LiteBar"}
NextBars == BarNext \/ LiteBarNext
SpecBars == InitBars /\ [][NextBars]_vars

\* ------------------------------------------------------------ lifecycle
\* spinner.Spinner has no running flag: its Stop has returned when the channel
\* s.doneCh names is closed and the thread that closed it is past <-s.finishedCh
LiteSpinnerStopped ==
    /\ doneCh # 0 /\ doneClosed[doneCh]
    /\ \A t \in Threads : pc[t] \notin {"stop_recv", "stop_wait"}

\* spinner.Spinner is Running once Start has published a channel nobody closed
LiteSpinnerRunning == lock = 0 /\ doneCh # 0 /\ ~doneClosed[doneCh]

\* ------------------------------------------------------------------ C1
\* C1: once a Spinner's Stop has returned, the animation goroutine of that run
\* has exited and the last thing it wrote is its clear sequence: in every state
\* where the Spinner is observably stopped (part_001: lock free and running
\* false; spinner.go: doneCh closed and the closing Stop past its receive) no
\* animation goroutine is alive and the sink does not end in a frame.
C1_StopJoins ==
    /\ (impl = "Spinner" /\ lock = 0 /\ ~running)
          => (AliveCount = 0 /\ out.kind \in {"none", "clear"})
    /\ (impl = "LiteSpinner" /\ LiteSpinnerStopped)
          => (AliveCount = 0 /\ out.kind = "cr")

\* a run that was started, rendered, and whose Stop has returned
C1_Witness ==
    /\ impl = "Spinner" /\ lock = 0 /\ ~running
    /\ \A t \in Threads : pc[t] = "idle"
    /\ \E g \in Slots : gpc[g] = "exited" /\ frameIndex[g] > 0
    /\ out.kind = "clear"

\* ------------------------------------------------------------------ C3
\* C3: a Spinner never has two animation goroutines alive; whenever no caller
\* is inside Start or Stop there is exactly one while it is Running and none
\* while it is Idle or Stopped.
C3_OneAnimation ==
    /\ impl \in {"Spinner", "LiteSpinner"} => AliveCount <= 1
    /\ (impl = "Spinner" /\ lock = 0) => AliveCount = (IF running THEN 1 ELSE 0)
    /\ (impl = "LiteSpinner" /\ LiteSpinnerRunning) => AliveCount = 1
    /\ (impl = "LiteSpinner" /\ lock = 0 /\ doneCh = 0) => AliveCount = 0
    /\ (impl = "LiteSpinner" /\ LiteSpinnerStopped) => AliveCount = 0

\* a second Start, inside its guard, on a Spinner that is Running
C3_Witness ==
    /\ impl = "Spinner"
    /\ \E t \in Threads : pc[t] = "start_locked"
    /\ running /\ AliveCount = 1

\* ------------------------------------------------------------------ C2
\* C2: once a Bar's Stop has returned (stopped is set and b.lock is free again)
\* the sink does not end in a bar frame: Stop's own clear sequence is the last
\* thing written until the next Start.
C2_NoFrameAfterStop ==
    (impl = "Bar" /\ stopped /\ lock = 0) => out.kind # "frame"

\* ------------------------------------------------------------------ C5
\* C5: once a Bar's Stop has returned, no resize watcher goroutine is alive.
C5_StopJoinsWatcher ==
    (impl = "Bar" /\ stopped /\ lock = 0) => \A w \in Watchers : pc[w] = "none"

\* ----------------------------------------------------------------- C10
\* C10: in the first run of a Bar, whenever no goroutine is inside SetProgress
\* and the sink ends in a bar frame, that frame shows the stored progress (the
\* value GetProgress returns).
C10_FramesInStoreOrder ==
    (/\ impl = "Bar" /\ started /\ ~stopped /\ clock = 1
     /\ \A p \in Procs : pc[p] \in {"idle", "recv", "none"}
     /\ out.kind = "frame")
        => out.val = lastProgress

\* ------------------------------------------------------------------ C4
\* C4: a SetProgress(p) that runs by itself (the first call on a new Bar, or
\* the call that follows Start, with no resize delivered) never fails, and when it returns the stored
\* progress (what GetProgress reads) is max(0, min(1, p)).
C4_SetProgressClamps ==
    [][\A t \in Threads :
          (/\ impl \in {"Bar", "LiteBar"}
           /\ pc[t] \in {"sp_check", "sp_render", "sp_write"}
           /\ \A p \in Procs \ {t} : pc[p] \in {"idle", "recv", "none"}
           /\ resizes = 0
           /\ calls = 1 \/ (impl = "Bar" /\ calls = 2 /\ started)
           /\ calls' = calls
           /\ pc'[t] # pc[t] \/ panicked')
              => /\ ~panicked'
                 /\ pc'[t] = "idle" => lastProgress' = Clamp(arg[t])]_vars

\* ------------------------------------------------------------------ C6
\* C6: a Stop on an indicator that is already stopped returns without a panic,
\* writes nothing and changes no state (Spinner of part_001, spinner.Spinner,
\* Bar of part_000).
C6_StopIdempotent ==
    [][\A t \in Threads :
          /\ (impl = "Spinner" /\ ~running /\ SpinnerStopBody(t))
                => /\ pc'[t] = "idle"
                   /\ UNCHANGED <<out, panicked, running, doneCh, finishedCh, gpc>>
          /\ (impl = "LiteSpinner" /\ LiteSpinnerStopped /\ LiteSpinnerStopClose(t))
                => /\ pc'[t] = "idle"
                   /\ UNCHANGED <<out, panicked, doneCh, finishedCh, doneClosed, gpc>>
          /\ (impl = "Bar" /\ stopped /\ BarStopBody(t))
                => /\ pc'[t] = "idle"
                   /\ UNCHANGED <<out, panicked, started, stopped, lastProgress>>]_vars

\* ------------------------------------------------------------------ C7
\* C7: a Start on a Stopped indicator makes it Running again: a Bar is started
\* and not stopped, with progress 0 and a new start time; a Spinner has a live
\* animation goroutine.
C7_RestartRuns ==
    [][\A t \in Threads :
          /\ (impl = "Bar" /\ stopped /\ BarStart(t))
                => /\ started' /\ ~stopped'
                   /\ lastProgress' = 0
                   /\ startTime' # startTime
          /\ (impl = "Spinner" /\ ~running /\ SpinnerStartBody(t))
                => AliveCount' = 1
          /\ (impl = "Spinner" /\ SpinnerStartPublish(t))
                => running' /\ AliveCount' = 1
          /\ (impl = "LiteSpinner" /\ LiteSpinnerStopped /\ LiteSpinnerStartBody(t))
                => AliveCount' = 1]_vars

\* ------------------------------------------------------------------ C8
\* progress.Bar keeps no lifecycle field: it is Running when the only calls
\* made so far are a Start and a SetProgress, both have returned, and no resize
\* was delivered (the sink then ends in the frame of that SetProgress)
LiteBarRunning ==
    /\ impl = "LiteBar" /\ sigNotify /\ resizes = 0 /\ calls = 2
    /\ \A t \in Threads : pc[t] = "idle"
    /\ out.kind = "frame"

\* the resize watchers that are alive
LiveWatchers == {w \in Watchers : pc[w] # "none"}

\* C8: a Start on an indicator that is Running writes nothing and leaves the
\* progress, the start time and the background goroutines as they were.
C8_StartOnRunningNoOp ==
    [][\A t \in Threads :
          /\ (impl = "Bar" /\ BarStartGuard /\ BarStart(t))
                => UNCHANGED <<out, lastProgress, startTime, LiveWatchers>>
          /\ (impl = "Spinner" /\ running /\ SpinnerStartBody(t))
                => UNCHANGED <<out, gpc, frameIndex, running>>
          /\ (impl = "LiteSpinner" /\ LiteSpinnerRunning /\ LiteSpinnerStartBody(t))
                => UNCHANGED <<out, gpc, frameIndex>>
          /\ (LiteBarRunning /\ LiteBarStartClear(t))
                => UNCHANGED <<out, lastProgress, LiveWatchers>>]_vars

\* ------------------------------------------------------------------ C9
\* C9: a Stop on an indicator that was never started writes nothing and leaves
\* it Idle: a Bar's started and stopped both stay false.
C9_StopOnIdleNoOp ==
    [][\A t \in Threads :
          /\ (impl = "Bar" /\ ~started /\ ~stopped /\ BarStopBody(t))
                => UNCHANGED <<out, started, stopped>>
          /\ (impl = "Spinner" /\ ~running /\ (\A g \in Slots : gpc[g] = "none")
                  /\ SpinnerStopBody(t))
                => UNCHANGED <<out, running, gpc>>]_vars

\* ----------------------------------------------------------------- C11
\* C11: while a Bar is Running in its first run, the redraw of the resize
\* watcher never changes the stored progress: the watcher has no value of its
\* own, so a store by it that changes the field puts back an older value over
\* the one a caller stored since.
C11_ResizeKeepsProgress ==
    [][\A w \in Watchers :
          /\ (impl = "Bar" /\ started /\ ~stopped /\ clock = 1
                  /\ BarSetProgressStore(w))
                => lastProgress' = lastProgress
          /\ (impl = "LiteBar" /\ LiteBarResizeStore(w))
                => lastProgress' = lastProgress]_vars

\* ----------------------------------------------------------------- C12
\* C12: no unlocked read of a mutable field runs together with a write of it:
\* the animation goroutine does not read s.prefix and s.suffix (a tick, the
\* final clearLine) while a caller is inside SetPrefix or SetSuffix about to
\* write them, and the resize watcher does not write b.totalWidth while a
\* SetProgress is between its two reads of it.
C12_NoUnlockedRace ==
    [][/\ \A g \in Slots :
             (impl = "Spinner" /\ (SpinnerTick(g) \/ SpinnerClearLine(g)))
                => \A t \in Threads :
                      pc[t] \notin {"setprefix_locked", "setsuffix_locked"}
       /\ \A w \in Watchers :
             (impl = "Bar" /\ BarResizeLocked(w) /\ totalWidth' # totalWidth)
                => \A p \in Procs : pc[p] # "sp_write"]_vars

\* ----------------------------------------------------------------- C13
\* C13: the k-th frame an animation goroutine writes is frames[(k-1) mod n]:
\* a tick of a goroutine that has written frameIndex frames so far (counted
\* modulo n) writes the glyph with that number, so the first one is glyph 0.
C13_FrameOrder ==
    [][\A g \in Slots :
          (SpinnerTick(g) \/ LiteSpinnerTick(g)) => out'.val = frameIndex[g]]_vars

\* ----------------------------------------------------------------- C14
\* C14: Bar.Run performs its Stop only after the function it was given has
\* returned: whenever a thread is inside, or past, the Stop that Run makes, the
\* function's goroutine has exited.
C14_RunWaitsForFn ==
    \A t \in Threads :
        (impl \in {"Bar", "LiteBar"} /\ outer[t] = "in_stop")
            => (fnDone /\ pc[Fn] = "none")

\* ----------------------------------------------------------------- C15
\* C15: when RunWithTimeout is about to return (its deferred Stop has
\* returned), the Spinner is not running and its animation goroutine has
\* exited; the result is fn's result if fn completed before the timer fired,
\* and the timeout error if the timer fired before fn completed.
C15_RunWithTimeout ==
    \A t \in Threads :
        (impl = "Spinner" /\ outer[t] = "in_stop" /\ pc[t] = "idle")
            => /\ ~running /\ AliveCount = 0
               /\ first = "fn" => result = "fn"
               /\ first = "timer" => result = "timeout"

\* ----------------------------------------------------------------- C16
\* C16: once StopAll has returned, every registered instance is Stopped (a
\* Bar's stopped flag is set, a Spinner is not running) and none has a
\* background goroutine that is still alive.
C16_StopAllStopsAll ==
    (impl \in {"MultiBar", "MultiSpinner"} /\ mop = "StopAll" /\ mpc = "done")
        => \A n \in Names :
              reg[n] # 0 =>
                 /\ inst[reg[n]].bg # "alive"
                 /\ impl = "MultiBar" => inst[reg[n]].stopped
                 /\ impl = "MultiSpinner" => ~inst[reg[n]].running

\* ----------------------------------------------------------------- C17
\* C17: the lines of the registered entries follow insertion order and no two
\* registered entries have the same line.
C17_LinesUnique ==
    impl \in {"MultiBar", "MultiSpinner"} =>
        \A n, m \in Names :
            (reg[n] # 0 /\ reg[m] # 0 /\ reg[n] < reg[m])
                => inst[reg[n]].line < inst[reg[m]].line

\* ----------------------------------------------------------------- C18
\* C18: Start, Stop, SetProgress and UpdateLabel of a registry, called with a
\* name that is not registered, leave the registry and every instance as they
\* were, write nothing and do not panic.
C18_UnknownNameNoOp ==
    [][(impl \in {"MultiBar", "MultiSpinner"} /\ mpc = "lookup" /\ reg[mname] = 0)
          => (reg' = reg /\ inst' = inst /\ out' = out /\ ~panicked' /\ mpc' = "done")]_vars

\* a call with an unregistered name has returned while another instance is
\* registered and Running
C18_Witness ==
    /\ impl \in {"MultiBar", "MultiSpinner"}
    /\ mpc = "done" /\ mop \in {"Start", "Stop", "SetProgress", "UpdateLabel"}
    /\ reg[mname] = 0
    /\ ~panicked
    /\ \E n \in Names : reg[n] # 0 /\ inst[reg[n]].bg = "alive"

\* ----------------------------------------------------------------- C19
\* C19: whatever options New or NewBarWithConfig was given, no panic occurs in
\* Start, in the ticks of the animation goroutine, in SetProgress or in Stop.
C19_NoFailureMidRun ==
    impl \in {"Spinner", "Bar"} => ~panicked

\* ----------------------------------------------------------------- C20
\* C20: in every reachable state an auto-width Bar has a track width of at
\* least 10 cells, and neither line clearing nor rendering has panicked.
C20_WidthFloor ==
    (impl \in {"Bar", "LiteBar"} /\ cfgWidth = 0)
        => (totalWidth >= 10 /\ ~panicked)

\* ----------------------------------------------------------------- C21
\* C21: the frame SetProgress(p) writes for a Bar of width W has exactly
\* floor(W * c) filled cells and W - floor(W * c) empty cells, c being p
\* clamped to [0, 1], and the write does not fail.
C21_FrameCells ==
    [][\A p \in Procs :
          /\ (impl = "Bar" /\ cfgWidth = FixedWidth /\ BarSetProgressWrite(p))
                => /\ arg[p] \in 0..One
                   /\ out' = BarFrame(arg[p], (FixedWidth * arg[p]) \div One,
                                      FixedWidth - (FixedWidth * arg[p]) \div One)
          /\ (impl = "LiteBar" /\ sigNotify /\ totalWidth > 0 /\ resizes = 0
                /\ LiteBarSetProgressWrite(p))
                => /\ ~panicked'
                   /\ out' = BarFrame(Clamp(arg[p]),
                                      (totalWidth * Clamp(arg[p])) \div One,
                                      totalWidth - (totalWidth * Clamp(arg[p])) \div One)]_vars

\* ----------------------------------------------------------------- C22
\* C22: the clear that Stop emits is at least as wide as the frame that was
\* on the line when it is written (one of the frames rendered in that run).
C22_ClearCoversFrame ==
    [][/\ \A g \in Slots :
             (impl = "Spinner" /\ out.kind = "frame" /\ SpinnerClearLine(g))
                => out'.empty >= out.pre + 1 + out.suf
       /\ \A t \in Threads :
             (impl = "Bar" /\ out.kind = "frame" /\ ~BarStopGuard /\ BarStopBody(t))
                => out'.empty >= out.filled + out.empty
                                    + (IF ShowPercent THEN 5 ELSE 0)]_vars

\* ----------------------------------------------------------------- C28
\* C28: every instance of a registry that is Running (a Spinner that is
\* running, a Bar that is started and not stopped) is registered under some
\* name, so that Stop(name) and StopAll reach it.
C28_RunningIsRegistered ==
    impl \in {"MultiBar", "MultiSpinner"} =>
        \A i \in Insts :
            (inst[i].running \/ (inst[i].started /\ ~inst[i].stopped))
                => \E n \in Names : reg[n] = i

\* ----------------------------------------------------------------- C23
\* C23: a Bar never has more than one resize-watcher goroutine alive.
C23_OneWatcher ==
    impl \in {"Bar", "LiteBar"} => Cardinality(LiveWatchers) <= 1

\* ----------------------------------------------------------------- C24
\* C24: when nothing else has changed the progress since Increment(delta) read
\* it, Increment stores max(0, min(1, old + delta)) and the frame it writes
\* shows that value.
C24_IncrementAdds ==
    [][\A t \in Threads :
          /\ (impl = "Bar" /\ delta[t] # 0 /\ lastProgress = current[t]
                /\ BarSetProgressStore(t))
                => lastProgress' = Clamp(lastProgress + delta[t])
          /\ (impl = "Bar" /\ delta[t] # 0 /\ lastProgress = arg[t]
                /\ BarSetProgressWrite(t))
                => (out'.kind = "frame" /\ out'.val = lastProgress)]_vars

\* Start, a call that rendered progress 0.5, and an Increment(0.5) that has
\* read 0.5 and stored 1.0 and is about to render it
C24_Witness ==
    /\ impl = "Bar" /\ started /\ ~stopped
    /\ calls = 3 /\ resizes = 0
    /\ pc[1] = "sp_render" /\ pc[2] = "idle"
    /\ delta[1] = 5 /\ arg[1] = One
    /\ lastProgress = One
    /\ out.kind = "frame" /\ out.val = 5

\* ----------------------------------------------------------------- C25
\* C25: Reset leaves the progress 0, started and stopped false and the start
\* time zero; and a Start on a Bar in that state does what the first Start of a
\* new Bar does: afterwards an auto-width Bar has exactly one resize watcher
\* and a fixed-width Bar has none.
C25_ResetIsFresh ==
    [][\A t \in Threads :
          /\ (impl = "Bar" /\ BarReset(t))
                => (lastProgress' = 0 /\ ~started' /\ ~stopped' /\ startTime' = 0)
          /\ (impl = "Bar" /\ ~started /\ ~stopped /\ lastProgress = 0
                /\ startTime = 0 /\ BarStart(t))
                => Cardinality({w \in Watchers : pc'[w] # "none"})
                      = (IF cfgWidth = 0 THEN 1 ELSE 0)]_vars

\* ----------------------------------------------------------------- C27
\* C27: on a Bar that is not Running, a SetProgress or Increment call returns
\* from its lifecycle test: the progress, the lifecycle, the start time and the
\* width keep their values and nothing is written.
C27_NotRunningNoOp ==
    [][\A t \in Threads :
          (impl = "Bar" /\ (~started \/ stopped)
             /\ (BarSetProgress(t) \/ BarIncrement(t) \/ BarSetProgressCheck(t)))
             => /\ pc[t] = "sp_check" => pc'[t] = "idle"
                /\ UNCHANGED <<lastProgress, started, stopped, startTime, totalWidth,
                               out, panicked>>]_vars

\* an Increment, the only call made on a new Bar, has returned: nothing was
\* written and the progress is still 0
C27_Witness ==
    /\ impl = "Bar" /\ ~started /\ ~stopped
    /\ calls = 1
    /\ \A p \in Procs : pc[p] \in {"idle", "none"}
    /\ delta[1] = 5
    /\ lastProgress = 0
    /\ out = NoOutput

\* ----------------------------------------------------------------- C26
\* C26: under fair scheduling every caller inside a Spinner method, Stop that
\* waits for the animation goroutine with the lock held and every caller
\* parked on the lock included, returns.
C26_StopReturns ==
    \A t \in Threads : (impl = "Spinner" /\ pc[t] # "idle") ~> (pc[t] = "idle")

\* Stop holds the lock and waits for a goroutine that is still in its loop,
\* while the other caller is parked on the lock
C26_Witness ==
    /\ impl = "Spinner"
    /\ pc[1] = "stop_wait" /\ lock = 1
    /\ pc[2] \in SpinnerBlocked
    /\ doneCh # 0 /\ doneClosed[doneCh] /\ gpc[doneCh] = "loop"

=============================================================================
